---- MODULE Spec2Model ----
(***************************************************************************)
(* Model of the fact cache, fact store and citation resolver of            *)
(* emergingtrajectories/factsrag3.py.                                      *)
(*                                                                         *)
(* Strings are sequences of one-character strings, so that the text-mode   *)
(* file round trip, the citation regular expression and the ID parser can  *)
(* be modelled on characters.  "CR" and "LF" stand for \r and \n.          *)
(***************************************************************************)
EXTENDS Integers, Sequences, FiniteSets, TLC

\* ------------------------------------------------------------------------
\* Bounds
\* ------------------------------------------------------------------------

\* Largest value the wall clock (datetime.now()) takes.
MaxNow == 2

\* Largest number of facts the store is filled with.
MaxFacts == 3

\* Largest length, in blocks of 25 characters, of a text handed to
\* shorten_text.
MaxTextBlocks == 24

\* Largest source count a chained clean_and_source_to_html call starts at.
MaxStartCount == 6

\* Largest number of characters of a text handed to a chunker.
MaxContentLen == 3

\* ------------------------------------------------------------------------
\* Inputs
\* ------------------------------------------------------------------------

\* URIs the callers pass explicitly.
URIS == { <<"u", "1">> }

\* Texts the crawler extracts from a page.
CrawledTexts == { <<"a", "CR", "LF">> }

\* Texts a caller or a file supplies.
Contents == { <<"b">> }

\* The empty string.
EmptyText == << >>

\* The facts and sources lists add_facts is called with: of equal
\* lengths, with fewer sources and with more sources than facts.
FactLists == { << >>, << <<"x">> >>, << <<"y">> >>, << <<"x">>, <<"y">> >> }

SourceLists ==
    { << >>, << <<"s", "1">> >>,
      << <<"s", "1">>, <<"s", "2">> >>,
      << <<"s", "2">>, <<"s", "1">>, <<"s", "1">> >> }

\* Texts handed to the citation resolver.
CiteTexts ==
    { <<"A", ".", "B">>,
      <<"A", "[", "f", "0", "]", "B">>,
      <<"A", "[", "f", "0", "]", ".", "B", "[", "f", "0", ",", " ", "f", "1", "]", ".">>,
      <<"[", "f", "1", ",", "f", "1", "]">>,
      <<"[", "F", "0", "]">>,
      <<"[", "f", "9", "]">>,
      <<"[", "f", "0", "]", "[", "f", "0", ",", "f", "9", "]">>,
      <<"[", "f", ",", "0", "]">> }

\* URLs a feed or a search lists, and the batches an adapter is handed.
FeedUrls == { <<"u", "1">>, <<"u", "2">> }

UrlBatches ==
    { << <<"u", "1">>, <<"u", "2">> >>,
      << <<"u", "2">>, <<"u", "1">> >>,
      << <<"u", "2">>, <<"u", "2">> >> }

\* ID strings the point lookups are called with.
FactIds ==
    { <<"f", "0">>, <<"f", "1">>, <<"F", "0">>, <<"0">>, <<"f", "9">>,
      <<"f", "-", "1">>, <<"-", "1">>, <<"f", "x">>, << >> }

\* Texts handed to ChunkerNewLines.chunk, and the min_length values it is
\* constructed with (7 is the default).
ChunkChars == {"a", " ", "LF", "CR"}

ChunkContents ==
    UNION { [1..n -> ChunkChars] : n \in 0..MaxContentLen }

MinLengths == { 0, 1, 2, 7 }

\* Texts handed to shorten_text and the token budgets it is called with
\* (8000 is the default).
LongTexts == { [i \in 1..(25 * k) |-> "a"] : k \in 0..MaxTextBlocks }

MaxTokenLengths == { 0, 100, 250, 300, 8000 }

\* The lists VectorDBDict.add_vectors and add_texts are called with: the
\* vectors are the embeddings of "x" and "y"; metadata may be left out.
VectorLists == { << >>, <<0>>, <<0, 2>> }

MetadataLists ==
    { << [source |-> <<"s", "1">>] >>,
      << [source |-> <<"s", "1">>], [source |-> <<"s", "1">>] >> }

\* The metadata argument: None or a list.
MetadataArgs ==
    { [is_none |-> TRUE, list |-> << >>] }
    \cup { [is_none |-> FALSE, list |-> m] : m \in MetadataLists }

\* start_count of clean_and_source_to_html.
StartCounts == { 0, 3 }

\* Query texts.
Queries == { <<"x">>, <<"q">> }

\* n_results of a query: all (-1), none, fewer and more than are stored.
NResults == { -1, 0, 1, 5 }

\* ------------------------------------------------------------------------
\* Content cache: pure helpers
\* ------------------------------------------------------------------------

\* hashlib.md5(s).hexdigest(): a collision-free digest, kept symbolic.
md5_hexdigest(s) == <<"md5:">> \o s

uri_to_local(uri) == md5_hexdigest(uri)

\* URIs add_content derives from the content when no URI is given.
ContentUris == { md5_hexdigest(c) : c \in Contents }

AllUris == URIS \cup ContentUris

\* f.write(s) on a file opened with open(path, "w") (newline=None, POSIX):
\* "\n" is written as os.linesep, which is "\n"; "\r" is written as is.
RECURSIVE file_write(_)
file_write(s) ==
    IF s = << >> THEN << >>
    ELSE <<Head(s)>> \o file_write(Tail(s))

\* f.read() on a file opened with open(path, "r") (newline=None): universal
\* newlines, "\r\n" and a lone "\r" are both returned as "\n".
RECURSIVE file_read(_)
file_read(s) ==
    IF s = << >> THEN << >>
    ELSE IF Head(s) = "CR"
         THEN IF Len(s) >= 2 /\ s[2] = "LF"
              THEN <<"LF">> \o file_read(Tail(Tail(s)))
              ELSE <<"LF">> \o file_read(Tail(s))
         ELSE <<Head(s)>> \o file_read(Tail(s))

\* A dict/dir with key k set to v.
Put(d, k, v) == [x \in (DOMAIN d) \cup {k} |-> IF x = k THEN v ELSE d[x]]

\* datetime value of clock reading t.
DateTime(t) == <<"datetime", t>>

\* DjangoJSONEncoder: a datetime is written as its ISO string; json.load
\* gives the string back, not a datetime.  Strings are written as they are.
json_datetime(d) == <<"isostring", d[2]>>

json_entry(e) ==
    [obtained_on   |-> json_datetime(e.obtained_on),
     last_accessed |-> json_datetime(e.last_accessed),
     accessed      |-> e.accessed,
     uri_md5       |-> e.uri_md5]

\* save_state: json.dump(self.cache) to the cache file.
save_state(c) == [u \in DOMAIN c |-> json_entry(c[u])]

\* Mutant of load_cache: the cache file is recreated empty on every start.
load_cache_fresh(f) == << >>

\* load_cache: json.load of the cache file.
load_cache(f) == f

in_cache(c, uri) == uri \in DOMAIN c

\* update_cache: the entry is replaced whole, accessed = 0.
update_cache(c, uri, obtained_on, last_accessed) ==
    Put(c, uri, [obtained_on   |-> obtained_on,
                 last_accessed |-> last_accessed,
                 accessed      |-> 0,
                 uri_md5       |-> uri_to_local(uri)])

\* Mutant of log_access: the accessed flag is left as it is.
log_access_noflag(c, uri, t) ==
    Put(c, uri, [c[uri] EXCEPT !.last_accessed = t])

\* log_access on a cached URI.
log_access(c, uri, t) ==
    Put(c, uri, [c[uri] EXCEPT !.last_accessed = t, !.accessed = 1])

get_unaccessed_content(c) == { u \in DOMAIN c : c[u].accessed = 0 }


\* ------------------------------------------------------------------------
\* Fact store (VectorDBDict): pure helpers
\* ------------------------------------------------------------------------

MAX_BATCH_SIZE == 100

\* The database a new file is created with.
EmptyDb == [embeddings |-> << >>, original_texts |-> << >>, metadata |-> << >>]

\* pickle.dump / pickle.load of the database: the object graph is restored
\* as it was.
pickle_dump(d) == d

pickle_load(f) == f

\* get_file_sha256: a collision-free digest of the file, kept symbolic.
get_file_sha256(f) == <<"sha256", f>>

count(d) == Len(d.original_texts)

\* The embedding model ("text-embedding-3-small"): a fixed point per text,
\* here on a line.
embedding_of(text) ==
    IF text = << >> THEN 3
    ELSE CASE Head(text) = "x" -> 0
           [] Head(text) = "q" -> 1
           [] Head(text) = "y" -> 2
           [] OTHER -> 3

\* len(self.encoding.encode(text)): one token per character.
token_count(text) == Len(text)

\* What stands for a call that does not return.
Diverges == <<"diverges">>

\* shorten_text: cut 250 characters and append "..." while over the budget.
RECURSIVE shorten_loop(_, _)
shorten_loop(new_text, max_token_length) ==
    IF token_count(new_text) > max_token_length
    THEN IF Len(new_text) > 250
         THEN shorten_loop(SubSeq(new_text, 1, Len(new_text) - 250) \o <<".", ".", ".">>,
                           max_token_length)
         ELSE Diverges
    ELSE new_text

shorten_text(text) == shorten_loop(text, 8000)

\* add_vectors: the IDs are the positions start_index .. end_index - 1.
\* faiss rejects an empty array (it has no second dimension) before
\* anything is appended.
add_vectors(d, vectors, texts, metadata) ==
    IF vectors = << >>
    THEN [raised |-> TRUE, db |-> d, ids |-> << >>]
    ELSE LET start_index == Len(d.original_texts)
             nd == [embeddings     |-> d.embeddings \o vectors,
                    original_texts |-> d.original_texts \o texts,
                    metadata       |-> d.metadata \o metadata]
             end_index == Len(nd.original_texts)
         IN [raised |-> FALSE, db |-> nd,
             ids |-> [i \in 1..(end_index - start_index) |-> start_index + i - 1]]

\* The embedding loop of add_texts: batches of at most MAX_BATCH_SIZE.
RECURSIVE embed_batches(_, _)
embed_batches(texts, last_index) ==
    IF last_index < Len(texts)
    THEN LET new_modifier == IF MAX_BATCH_SIZE < Len(texts) - last_index
                             THEN MAX_BATCH_SIZE ELSE Len(texts) - last_index
             text_subset == [i \in 1..new_modifier |->
                                shorten_text(texts[last_index + i])]
         IN [i \in 1..new_modifier |-> embedding_of(text_subset[i])]
                \o embed_batches(texts, last_index + new_modifier)
    ELSE << >>

\* add_texts: api_ok is whether the embedding service answers.
add_texts(d, texts, metadata, api_ok) ==
    IF ~api_ok
    THEN [raised |-> TRUE, db |-> d, ids |-> << >>]
    ELSE add_vectors(d, embed_batches(texts, 0), texts, metadata)

\* Mutant of save: the file is left as it was.
save_nowrite(d, file, db_hash, error_out_on_conflict) ==
    [raised |-> FALSE, warned |-> FALSE, file |-> file, db_hash |-> db_hash]

\* Mutant of save: the database is written before the hashes are compared.
save_write_first(d, file, db_hash, error_out_on_conflict) ==
    LET conflict == get_file_sha256(file) # db_hash IN
    [raised |-> conflict /\ error_out_on_conflict,
     warned |-> conflict /\ ~error_out_on_conflict,
     file |-> pickle_dump(d),
     db_hash |-> IF conflict /\ error_out_on_conflict THEN db_hash
                 ELSE get_file_sha256(pickle_dump(d))]

\* Mutant of save: a file that another process changed is left to it.
save_yielding(d, file, db_hash, error_out_on_conflict) ==
    LET conflict == get_file_sha256(file) # db_hash IN
    IF conflict
    THEN [raised |-> error_out_on_conflict, warned |-> ~error_out_on_conflict,
          file |-> file, db_hash |-> db_hash]
    ELSE [raised |-> FALSE, warned |-> FALSE,
          file |-> pickle_dump(d),
          db_hash |-> get_file_sha256(pickle_dump(d))]

\* save: compare the file's hash with the one recorded, then write the
\* database and record the new hash.
save(d, file, db_hash, error_out_on_conflict) ==
    LET file_sha == get_file_sha256(file)
        conflict == file_sha # db_hash
    IN IF conflict /\ error_out_on_conflict
       THEN [raised |-> TRUE, warned |-> FALSE, file |-> file, db_hash |-> db_hash]
       ELSE [raised |-> FALSE, warned |-> conflict,
             file |-> pickle_dump(d),
             db_hash |-> get_file_sha256(pickle_dump(d))]

\* VectorDBDict.get(index): Python list indexing, so a negative index
\* counts from the end and an index out of range raises IndexError.
vector_db_get(d, index) ==
    LET n == count(d)
        pos == IF index < 0 THEN n + index + 1 ELSE index + 1
    IN IF pos >= 1 /\ pos <= n
       THEN [raised |-> FALSE, text |-> d.original_texts[pos],
             metadata |-> d.metadata[pos]]
       ELSE [raised |-> TRUE, text |-> EmptyText, metadata |-> << >>]

\* The orders in which the index can return all stored IDs for a query:
\* nearest first (IndexFlatL2: squared distance); the order among
\* equally distant vectors is the library's.
l2_distance(a, b) == (a - b) * (a - b)

search_orders(d, text) ==
    LET n == count(d)
        dist(id) == l2_distance(embedding_of(text), d.embeddings[id + 1])
    IN { o \in [1..n -> 0..(n - 1)] :
           /\ \A i, j \in 1..n : i # j => o[i] # o[j]
           /\ \A i, j \in 1..n : i < j => dist(o[i]) <= dist(o[j]) }

\* Mutant of query: the first n IDs in the order they were stored.
query_first_stored(d, order, n, zero_k_raises) ==
    IF n <= 0
    THEN [raised |-> zero_k_raises, ids |-> << >>]
    ELSE [raised |-> FALSE,
          ids |-> [i \in 1..n |-> IF i <= count(d) THEN i - 1 ELSE -1]]

\* VectorDBDict.query(text, n) for one such order: the n nearest IDs, filled
\* up with -1 when fewer than n vectors are stored.  For n = 0 the faiss
\* wrapper of some versions fails an assertion and of others returns nothing.
query(d, order, n, zero_k_raises) ==
    IF n <= 0
    THEN [raised |-> zero_k_raises, ids |-> << >>]
    ELSE [raised |-> FALSE,
          ids |-> [i \in 1..n |-> IF i <= Len(order) THEN order[i] ELSE -1]]

\* The loop of query_min_date over all_indices_sorted.
RECURSIVE min_date_loop(_, _, _, _, _, _)
min_date_loop(d, all_indices_sorted, i, min_date, n, return_me) ==
    IF i > Len(all_indices_sorted)
    THEN return_me
    ELSE LET id == all_indices_sorted[i]
             keep == d.metadata[id + 1].datetime[2] >= min_date[2]
             grown == IF keep THEN Append(return_me, id) ELSE return_me
         IN IF Len(grown) >= n
            THEN grown
            ELSE min_date_loop(d, all_indices_sorted, i + 1, min_date, n, grown)

\* Mutant of query_min_date: the n nearest are taken first and filtered
\* afterwards.
query_min_date_late_filter(d, order, min_date, n, zero_k_raises) ==
    LET first == query(d, order, IF n < count(d) THEN n ELSE count(d), zero_k_raises) IN
    IF first.raised THEN first
    ELSE [raised |-> FALSE,
          ids |-> min_date_loop(d, first.ids, 1, min_date, count(d) + 1, << >>)]

\* query_min_date
query_min_date(d, order, min_date, n, zero_k_raises) ==
    LET all_indices_sorted == query(d, order, count(d), zero_k_raises) IN
    IF all_indices_sorted.raised THEN all_indices_sorted
    ELSE [raised |-> FALSE,
          ids |-> min_date_loop(d, all_indices_sorted.ids, 1, min_date, n, << >>)]

\* f"f{i}"
fact_id_of(i) == <<"f", i>>

\* d[key] = value on a dict kept as a sequence of its items in insertion
\* order: an existing key keeps its place.
dict_set(items, key, value) ==
    IF \E k \in 1..Len(items) : items[k].key = key
    THEN [k \in 1..Len(items) |->
             IF items[k].key = key THEN [key |-> key, value |-> value] ELSE items[k]]
    ELSE Append(items, [key |-> key, value |-> value])

\* The loop of query_to_fact_list over result_ids.
RECURSIVE facts_of_ids(_, _, _, _)
facts_of_ids(d, result_ids, i, facts) ==
    IF i > Len(result_ids)
    THEN [raised |-> FALSE, facts |-> facts]
    ELSE LET f_id_as_int == result_ids[i]
             got == vector_db_get(d, f_id_as_int)
         IN IF got.raised
            THEN [raised |-> TRUE, facts |-> << >>]
            ELSE facts_of_ids(d, result_ids, i + 1,
                     dict_set(facts, fact_id_of(f_id_as_int),
                              [content |-> got.text,
                               source  |-> got.metadata.source,
                               added   |-> got.metadata.datetime,
                               added_on_timestamp |-> got.metadata.added_on_timestamp]))

\* No since_date.
None == <<"None", -1>>

\* What a search for k = 0 vectors can do: only a query that makes one
\* (n_results = 0 without since_date, or an empty store) has the choice.
zero_k_outcomes(d, n_results, since_date) ==
    IF count(d) = 0 \/ (since_date = None /\ n_results = 0)
    THEN BOOLEAN ELSE {FALSE}

\* query_to_fact_list(query, n_results, since_date)
query_to_fact_list(d, order, n_results, since_date, zero_k_raises) ==
    LET n == IF n_results = -1 THEN count(d) ELSE n_results
        result_ids == IF since_date = None
                      THEN query(d, order, n, zero_k_raises)
                      ELSE query_min_date(d, order, since_date, n, zero_k_raises)
    IN IF result_ids.raised
       THEN [raised |-> TRUE, facts |-> << >>]
       ELSE facts_of_ids(d, result_ids.ids, 1, << >>)

\* ------------------------------------------------------------------------
\* Citation resolver: pure helpers
\* ------------------------------------------------------------------------

Digits == {"0", "1", "2", "3", "4", "5", "6", "7", "8", "9"}

Whitespace == {" ", "LF", "CR"}

digit_value(c) ==
    CASE c = "0" -> 0 [] c = "1" -> 1 [] c = "2" -> 2 [] c = "3" -> 3
      [] c = "4" -> 4 [] c = "5" -> 5 [] c = "6" -> 6 [] c = "7" -> 7
      [] c = "8" -> 8 [] c = "9" -> 9

digit_char(n) ==
    CASE n = 0 -> "0" [] n = 1 -> "1" [] n = 2 -> "2" [] n = 3 -> "3"
      [] n = 4 -> "4" [] n = 5 -> "5" [] n = 6 -> "6" [] n = 7 -> "7"
      [] n = 8 -> "8" [] n = 9 -> "9"

\* str(n) for n >= 0.
RECURSIVE py_str(_)
py_str(n) ==
    IF n < 10 THEN <<digit_char(n)>>
    ELSE py_str(n \div 10) \o <<digit_char(n % 10)>>

\* s.strip()
RECURSIVE lstrip(_)
lstrip(s) ==
    IF s # << >> /\ Head(s) \in Whitespace THEN lstrip(Tail(s)) ELSE s

RECURSIVE rstrip(_)
rstrip(s) ==
    IF s # << >> /\ s[Len(s)] \in Whitespace
    THEN rstrip(SubSeq(s, 1, Len(s) - 1)) ELSE s

strip(s) == rstrip(lstrip(s))

\* s.lower()
lower_char(c) ==
    CASE c = "F" -> "f" [] c = "A" -> "a" [] c = "B" -> "b" [] OTHER -> c

lower(s) == [i \in 1..Len(s) |-> lower_char(s[i])]

\* s.split(",")
RECURSIVE split_commas(_, _)
split_commas(s, current) ==
    IF s = << >> THEN <<current>>
    ELSE IF Head(s) = ","
         THEN <<current>> \o split_commas(Tail(s), << >>)
         ELSE split_commas(Tail(s), Append(current, Head(s)))

split(s) == split_commas(s, << >>)

\* int(s): surrounding whitespace is dropped, then an optional sign and at
\* least one digit, digits only, else ValueError.
RECURSIVE digits_value(_, _)
digits_value(s, acc) ==
    IF s = << >> THEN acc
    ELSE digits_value(Tail(s), acc * 10 + digit_value(Head(s)))

py_int(s) ==
    LET t == strip(s)
        signed == t # << >> /\ Head(t) \in {"+", "-"}
        digits == IF signed THEN Tail(t) ELSE t
    IN
    IF digits # << >> /\ \A i \in 1..Len(digits) : digits[i] \in Digits
    THEN [raised |-> FALSE,
          value |-> IF signed /\ Head(t) = "-"
                    THEN 0 - digits_value(digits, 0)
                    ELSE digits_value(digits, 0)]
    ELSE [raised |-> TRUE, value |-> 0]

\* The pattern \[f[\d\s\,f]+\]: its character class, and "f" itself, also
\* match "F" under re.IGNORECASE.
in_class(c, ignorecase) ==
    c \in Digits \cup Whitespace \cup {",", "f"} \/ (ignorecase /\ c = "F")

is_f(c, ignorecase) == c = "f" \/ (ignorecase /\ c = "F")

\* The first position from i on that holds no character of the class.
RECURSIVE class_run_end(_, _, _)
class_run_end(text, i, ignorecase) ==
    IF i <= Len(text) /\ in_class(text[i], ignorecase)
    THEN class_run_end(text, i + 1, ignorecase)
    ELSE i

\* The position of the "]" closing a match that starts at i, or 0.
match_end(text, i, ignorecase) ==
    IF i + 1 <= Len(text) /\ text[i] = "[" /\ is_f(text[i + 1], ignorecase)
    THEN LET j == class_run_end(text, i + 2, ignorecase) IN
         IF j > i + 2 /\ j <= Len(text) /\ text[j] = "]" THEN j ELSE 0
    ELSE 0

\* re.finditer: the matches from left to right, none overlapping.
RECURSIVE finditer(_, _, _)
finditer(text, i, ignorecase) ==
    IF i > Len(text) THEN << >>
    ELSE LET j == match_end(text, i, ignorecase) IN
         IF j = 0
         THEN finditer(text, i + 1, ignorecase)
         ELSE <<[start |-> i, end |-> j]>> \o finditer(text, j + 1, ignorecase)

\* The fact a fact-ID string such as "f12" names: the index parsed by
\* get_fact_source and get_fact_content, then VectorDBDict.get.
fact_lookup(d, fact_id) ==
    LET f_str == lower(fact_id)
        failed == [raised |-> TRUE, text |-> EmptyText, metadata |-> << >>]
    IN IF f_str = << >>
       THEN failed
       ELSE LET f_id_as_int == IF f_str[1] = "f" THEN py_int(Tail(f_str))
                               ELSE py_int(f_str)
            IN IF f_id_as_int.raised THEN failed
               ELSE vector_db_get(d, f_id_as_int.value)

\* Mutant of get_fact_source: an index past the end wraps around.
get_fact_source_wrapping(d, fact_id) ==
    LET got == fact_lookup(d, fact_id)
        f_str == lower(fact_id)
        wrapped == IF f_str # << >> /\ f_str[1] = "f" /\ ~py_int(Tail(f_str)).raised
                      /\ count(d) > 0
                   THEN vector_db_get(d, py_int(Tail(f_str)).value % count(d))
                   ELSE got
    IN IF wrapped.raised
       THEN [raised |-> TRUE, value |-> EmptyText]
       ELSE [raised |-> FALSE, value |-> wrapped.metadata.source]

\* get_fact_source(fact_id)
get_fact_source(d, fact_id) ==
    LET got == fact_lookup(d, fact_id) IN
    IF got.raised
    THEN [raised |-> TRUE, value |-> EmptyText]
    ELSE [raised |-> FALSE, value |-> got.metadata.source]

\* get_fact_content(fact_id)
get_fact_content(d, fact_id) ==
    LET got == fact_lookup(d, fact_id) IN
    IF got.raised
    THEN [raised |-> TRUE, value |-> EmptyText]
    ELSE [raised |-> FALSE, value |-> got.text]

\* ", ".join(parts)
RECURSIVE join_comma_space(_)
join_comma_space(parts) ==
    IF parts = << >> THEN << >>
    ELSE IF Len(parts) = 1 THEN parts[1]
         ELSE parts[1] \o <<",", " ">> \o join_comma_space(Tail(parts))

\* f"{ref_ctr} :: " + source + "\n"
source_line(ref_ctr, source) ==
    py_str(ref_ctr) \o <<" ", ":", ":", " ">> \o source \o <<"LF">>

\* The loop of clean_fact_citations over the references of one bracket that
\* holds commas; st is the state of the outer loop.  Python evaluates the
\* right-hand side of an assignment once: a value that is read again is
\* bound as the one element of a singleton, CHOOSE r \in {e : x \in {v}}.
RECURSIVE plain_refs(_, _, _, _, _)
plain_refs(d, refs, k, st0, ref_arr) == CHOOSE r_st \in {
    IF k > Len(refs)
    THEN [st EXCEPT !.ref_str = <<"[">> \o join_comma_space(ref_arr) \o <<"]">>]
    ELSE LET ref == strip(refs[k])
             ref_ctr == st.ref_ctr + 1
             source == get_fact_source(d, ref)
         IN IF source.raised
            THEN [st EXCEPT !.raised = TRUE]
            ELSE plain_refs(d, refs, k + 1,
                     [st EXCEPT !.ref_ctr = ref_ctr,
                                !.sources_list = @ \o source_line(ref_ctr, source.value)],
                     Append(ref_arr, py_str(ref_ctr)))
    : st \in {st0} } : TRUE

\* The loop of clean_fact_citations over the matches.
RECURSIVE plain_matches(_, _, _, _, _)
plain_matches(d, text_to_clean, matches, m, st0) == CHOOSE r_st \in {
    IF st.raised \/ m > Len(matches)
    THEN st
    ELSE LET start == matches[m].start
             end == matches[m].end
             group == SubSeq(text_to_clean, start, end)
             inner == SubSeq(text_to_clean, start + 1, end - 1)
             before == SubSeq(text_to_clean, st.last_index, start - 1)
         IN IF \A i \in 1..Len(group) : group[i] # ","
            THEN LET ref_ctr == st.ref_ctr + 1
                     ref == strip(inner)
                     source == get_fact_source(d, ref)
                 IN IF source.raised
                    THEN [st EXCEPT !.raised = TRUE]
                    ELSE plain_matches(d, text_to_clean, matches, m + 1,
                             [st EXCEPT
                                 !.ref_ctr = ref_ctr,
                                 !.new_text = @ \o before
                                                \o <<"[">> \o py_str(ref_ctr) \o <<"]">>,
                                 !.sources_list = @ \o source_line(ref_ctr, source.value),
                                 !.last_index = end + 1])
            ELSE CHOOSE r_done \in {
                 IF done.raised
                 THEN done
                 ELSE plain_matches(d, text_to_clean, matches, m + 1,
                          [done EXCEPT !.new_text = @ \o before \o done.ref_str,
                                       !.last_index = end + 1])
                 : done \in {plain_refs(d, split(inner), 1, st, << >>)} } : TRUE
    : st \in {st0} } : TRUE

\* Mutant of clean_fact_citations: the sources section is appended also
\* when no reference was found.
clean_fact_citations_always_sources(d, text_to_clean) ==
    CHOOSE r_st \in {
        IF st.raised
        THEN [raised |-> TRUE, value |-> EmptyText]
        ELSE [raised |-> FALSE,
              value |-> st.new_text
                            \o SubSeq(text_to_clean, st.last_index, Len(text_to_clean))
                            \o <<"LF", "LF", "Sources:", "LF">> \o st.sources_list]
    : st \in {plain_matches(d, text_to_clean, finditer(text_to_clean, 1, FALSE), 1,
                  [raised |-> FALSE, new_text |-> << >>, ref_ctr |-> 0,
                   last_index |-> 1, sources_list |-> << >>, ref_str |-> << >>])} } : TRUE

\* clean_fact_citations(knowledge_db, text_to_clean)
clean_fact_citations(d, text_to_clean) ==
    CHOOSE r_st \in {
    LET new_text == st.new_text \o SubSeq(text_to_clean, st.last_index, Len(text_to_clean))
    IN IF st.raised
       THEN [raised |-> TRUE, value |-> EmptyText]
       ELSE IF st.ref_ctr = 0
            THEN [raised |-> FALSE, value |-> text_to_clean]
            ELSE [raised |-> FALSE,
                  value |-> new_text \o <<"LF", "LF", "Sources:", "LF">>
                                     \o st.sources_list]
    : st \in {plain_matches(d, text_to_clean, finditer(text_to_clean, 1, FALSE), 1,
                  [raised |-> FALSE, new_text |-> << >>, ref_ctr |-> 0,
                   last_index |-> 1, sources_list |-> << >>, ref_str |-> << >>])} } : TRUE

\* The anchor and the end-note span clean_and_source_to_html writes; the
\* fixed pieces of markup are single tokens.
html_anchor(source, ref_ctr) ==
    <<"<a class='source_link' target='_blank' href='">> \o source \o <<"'>">>
        \o py_str(ref_ctr) \o <<"</a>">>

html_span(ref_ctr, prefix, fact_text, source) ==
    <<"<span class='fact_span'><b>">> \o py_str(ref_ctr) \o <<":</b> ">>
        \o prefix \o fact_text \o <<" <a href='">> \o source
        \o <<"' target='_blank'>View Source</a></span>">> \o <<"LF">>

\* The loop of clean_and_source_to_html over the references of one bracket
\* that holds commas.
RECURSIVE html_refs(_, _, _, _)
html_refs(d, refs, k, st0) == CHOOSE r_st \in {
    IF k > Len(refs)
    THEN st
    ELSE LET ref == lower(strip(refs[k]))
             ref_ctr == st.ref_ctr + 1
             source == get_fact_source(d, ref)
             fact_text == get_fact_content(d, ref)
         IN IF source.raised \/ fact_text.raised
            THEN [st EXCEPT !.raised = TRUE]
            ELSE html_refs(d, refs, k + 1,
                     [st EXCEPT
                         !.ref_ctr = ref_ctr,
                         !.ref_str = @ \o <<" ">> \o html_anchor(source.value, ref_ctr),
                         !.sources_text = @ \o html_span(ref_ctr, <<"$">>,
                                                         fact_text.value, source.value)])
    : st \in {st0} } : TRUE

\* The loop of clean_and_source_to_html over the matches.
RECURSIVE html_matches(_, _, _, _, _)
html_matches(d, text_to_clean, matches, m, st0) == CHOOSE r_st \in {
    IF st.raised \/ m > Len(matches)
    THEN st
    ELSE LET start == matches[m].start
             end == matches[m].end
             group == SubSeq(text_to_clean, start, end)
             inner == SubSeq(text_to_clean, start + 1, end - 1)
             before == SubSeq(text_to_clean, st.last_index, start - 1)
         IN IF \A i \in 1..Len(group) : group[i] # ","
            THEN LET ref_ctr == st.ref_ctr + 1
                     ref == lower(strip(inner))
                     source == get_fact_source(d, ref)
                     fact_text == get_fact_content(d, ref)
                 IN IF source.raised \/ fact_text.raised
                    THEN [st EXCEPT !.raised = TRUE]
                    ELSE html_matches(d, text_to_clean, matches, m + 1,
                             [st EXCEPT
                                 !.ref_ctr = ref_ctr,
                                 !.new_text = @ \o before
                                                \o html_anchor(source.value, ref_ctr),
                                 !.sources_text = @ \o html_span(ref_ctr, << >>,
                                                        fact_text.value, source.value),
                                 !.last_index = end + 1])
            ELSE CHOOSE r_done \in {
                 IF done.raised
                 THEN done
                 ELSE html_matches(d, text_to_clean, matches, m + 1,
                          [done EXCEPT !.new_text = @ \o before \o done.ref_str,
                                       !.last_index = end + 1])
                 : done \in {html_refs(d, split(inner), 1,
                                       [st EXCEPT !.ref_str = << >>])} } : TRUE
    : st \in {st0} } : TRUE

\* Mutant of clean_and_source_to_html: the count it was given is returned.
clean_and_source_to_html_same_count(d, text_to_clean, start_count) ==
    CHOOSE r_st \in {
       IF st.raised
       THEN [raised |-> TRUE, value |-> << >>]
       ELSE [raised |-> FALSE,
             value |-> [new_text |-> st.new_text
                            \o SubSeq(text_to_clean, st.last_index, Len(text_to_clean)),
                        sources_text |-> st.sources_text,
                        ref_ctr |-> start_count]]
    : st \in {html_matches(d, text_to_clean, finditer(text_to_clean, 1, TRUE), 1,
                  [raised |-> FALSE, new_text |-> << >>, ref_ctr |-> start_count,
                   last_index |-> 1, sources_text |-> << >>, ref_str |-> << >>])} } : TRUE

\* FactBot.clean_and_source_to_html(text_to_clean, start_count)
clean_and_source_to_html(d, text_to_clean, start_count) ==
    CHOOSE r_st \in {
       IF st.raised
       THEN [raised |-> TRUE, value |-> << >>]
       ELSE [raised |-> FALSE,
             value |-> [new_text |-> st.new_text
                            \o SubSeq(text_to_clean, st.last_index, Len(text_to_clean)),
                        sources_text |-> st.sources_text,
                        ref_ctr |-> st.ref_ctr]]
    : st \in {html_matches(d, text_to_clean, finditer(text_to_clean, 1, TRUE), 1,
                  [raised |-> FALSE, new_text |-> << >>, ref_ctr |-> start_count,
                   last_index |-> 1, sources_text |-> << >>, ref_str |-> << >>])} } : TRUE

\* ------------------------------------------------------------------------
\* State
\* ------------------------------------------------------------------------

VARIABLES
    cache,      \* FactRAGFileCache.cache: dict URI -> entry (in memory)
    cacheFile,  \* contents of cache.json
    original,   \* files of folder original/: name -> contents
    parsed,     \* files of folder parsed/: name -> contents
    now,        \* the wall clock read by datetime.now()
    crawls,     \* history: number of crawler.get_content calls per URI
    drain,      \* history: whether get_unaccessed_content() was called
                \* with no content added since, and what of its result
                \* was not yet log_access-ed
    call,       \* history: the last call, its argument and what it returned
    db,         \* VectorDBDict.db (in memory)
    dbFile,     \* contents of vector_db.pickle
    db_hash,    \* VectorDBDict.db_hash
    issued,     \* history: every fact ID add_facts assigned, with the text
                \* and source it was assigned to
    foreign     \* history: another process wrote vector_db.pickle after
                \* this instance last loaded or saved it

cacheVars == <<cache, cacheFile, original, parsed, crawls, drain>>

factVars == <<db, dbFile, db_hash, issued, foreign>>

vars == <<cache, cacheFile, original, parsed, now, crawls, drain, call,
          db, dbFile, db_hash, issued, foreign>>

\* The record of a call that returned ret, and of one that raised.
Returned(op, uri, ret) ==
    [op |-> op, uri |-> uri, arg |-> << >>, raised |-> FALSE, ret |-> ret]

Raised(op, uri) ==
    [op |-> op, uri |-> uri, arg |-> << >>, raised |-> TRUE, ret |-> EmptyText]

\* The same for a call with further arguments.
ReturnedWith(op, arg, ret) ==
    [op |-> op, uri |-> EmptyText, arg |-> arg, raised |-> FALSE, ret |-> ret]

RaisedWith(op, arg) ==
    [op |-> op, uri |-> EmptyText, arg |-> arg, raised |-> TRUE, ret |-> EmptyText]

\* Content was added: the list get_unaccessed_content() returned is stale.
NoDrain == [listed |-> FALSE, returned |-> {}, pending |-> {}]

\* Calls whose result no property reads are recorded by name only.
Called(op) == Returned(op, EmptyText, EmptyText)

Init ==
    /\ cache = << >>
    /\ cacheFile = << >>
    /\ original = << >>
    /\ parsed = << >>
    /\ now = 0
    /\ crawls = [u \in AllUris \cup FeedUrls |-> 0]
    /\ drain = NoDrain
    /\ call = Called("init")
    /\ db = EmptyDb
    /\ dbFile = pickle_dump(EmptyDb)
    /\ db_hash = get_file_sha256(pickle_dump(EmptyDb))
    /\ issued = {}
    /\ foreign = FALSE

\* ------------------------------------------------------------------------
\* Content cache: operations
\* ------------------------------------------------------------------------

\* Time passes.
Tick ==
    /\ now < MaxNow
    /\ now' = now + 1
    /\ UNCHANGED <<cacheVars, factVars, call>>

\* What self.crawler.get_content(uri) may do: raise, or return the raw
\* content and the text extracted from it.
RawOf(text) == <<"<">> \o text \o <<">">>

CrawlOutcomes ==
    {[raises |-> TRUE, content |-> EmptyText, text |-> EmptyText]}
    \cup {[raises |-> FALSE, content |-> RawOf(t), text |-> t] :
               t \in CrawledTexts}

\* get(uri); the call record keeps whether the crawler raised.
Get(uri) ==
    LET uri_md5 == uri_to_local(uri)
        crawled(raised) == [crawler_raised |-> raised]
    IN
    IF in_cache(cache, uri)
    THEN /\ call' = IF uri_md5 \in DOMAIN parsed
                    THEN [Returned("get", uri, file_read(parsed[uri_md5]))
                              EXCEPT !.arg = crawled(FALSE)]
                    ELSE [Raised("get", uri) EXCEPT !.arg = crawled(FALSE)]
         /\ UNCHANGED <<cacheVars, factVars, now>>
    ELSE \E c \in CrawlOutcomes :
         LET content == IF c.raises THEN EmptyText ELSE c.content
             text    == IF c.raises THEN EmptyText ELSE c.text
         IN
         /\ crawls' = [crawls EXCEPT ![uri] = @ + 1]
         /\ original' = Put(original, uri_md5, file_write(content))
         /\ parsed' = Put(parsed, uri_md5, file_write(text))
         /\ cache' = update_cache(cache, uri, DateTime(now), DateTime(now))
         /\ cacheFile' = save_state(cache')
         /\ drain' = NoDrain
         /\ call' = [Returned("get", uri, text) EXCEPT !.arg = crawled(c.raises)]
         /\ UNCHANGED <<factVars, now>>

\* add_content(content, uri): uri = None is the empty URI here.
AddContentTo(content, given, op) ==
    LET uri     == IF given = EmptyText THEN md5_hexdigest(content) ELSE given
        uri_md5 == uri_to_local(uri)
    IN
    /\ parsed' = Put(parsed, uri_md5, file_write(content))
    /\ cache' = update_cache(cache, uri, DateTime(now), DateTime(now))
    /\ cacheFile' = save_state(cache')
    /\ drain' = NoDrain
    /\ call' = Called(op)
    /\ UNCHANGED <<factVars, original, now, crawls>>

AddContent(content, given) == AddContentTo(content, given, "add_content")

\* add_content_from_file(filepath, uri): the file holds `stored`.
AddContentFromFile(stored, given) ==
    AddContentTo(file_read(stored), given, "add_content_from_file")

\* The record of a force_content call.
ForceContentCall(uri, check_exists, ret) ==
    [Returned("force_content", uri, ret) EXCEPT !.arg = [check_exists |-> check_exists]]

\* Mutant of force_content: the blobs are written before the presence check.
ForceContentLateCheck(uri, content, check_exists) ==
    LET uri_md5 == uri_to_local(uri) IN
    /\ original' = Put(original, uri_md5, file_write(content))
    /\ parsed' = Put(parsed, uri_md5, file_write(content))
    /\ IF check_exists /\ in_cache(cache, uri)
       THEN /\ call' = ForceContentCall(uri, check_exists, FALSE)
            /\ UNCHANGED <<cache, cacheFile, drain>>
       ELSE /\ cache' = log_access(
                            update_cache(cache, uri, DateTime(now), DateTime(now)),
                            uri, DateTime(now))
            /\ cacheFile' = save_state(cache')
            /\ drain' = NoDrain
            /\ call' = ForceContentCall(uri, check_exists, TRUE)
    /\ UNCHANGED <<factVars, now, crawls>>

\* force_content(uri, content, check_exists)
ForceContent(uri, content, check_exists) ==
    IF check_exists /\ in_cache(cache, uri)
    THEN /\ call' = ForceContentCall(uri, check_exists, FALSE)
         /\ UNCHANGED <<cacheVars, factVars, now>>
    ELSE LET uri_md5 == uri_to_local(uri) IN
         /\ original' = Put(original, uri_md5, file_write(content))
         /\ parsed' = Put(parsed, uri_md5, file_write(content))
         /\ cache' = log_access(
                         update_cache(cache, uri, DateTime(now), DateTime(now)),
                         uri, DateTime(now))
         /\ cacheFile' = save_state(cache')
         /\ drain' = NoDrain
         /\ call' = ForceContentCall(uri, check_exists, TRUE)
         /\ UNCHANGED <<factVars, now, crawls>>

\* Mutant of log_access: the entry is updated and the cache file is not
\* written.
LogAccessUnsaved(uri) ==
    IF in_cache(cache, uri)
    THEN /\ cache' = log_access(cache, uri, DateTime(now))
         /\ drain' = [drain EXCEPT !.pending = @ \ {uri}]
         /\ call' = Called("log_access")
         /\ UNCHANGED <<factVars, cacheFile, original, parsed, now, crawls>>
    ELSE /\ call' = Raised("log_access", EmptyText)
         /\ UNCHANGED <<cacheVars, factVars, now>>

\* log_access(uri): a KeyError for a URI that is not cached.
LogAccess(uri) ==
    IF in_cache(cache, uri)
    THEN /\ cache' = log_access(cache, uri, DateTime(now))
         /\ cacheFile' = save_state(cache')
         /\ drain' = [drain EXCEPT !.pending = @ \ {uri}]
         /\ call' = Called("log_access")
         /\ UNCHANGED <<factVars, original, parsed, now, crawls>>
    ELSE /\ call' = Raised("log_access", EmptyText)
         /\ UNCHANGED <<cacheVars, factVars, now>>

\* get_unaccessed_content()
GetUnaccessedContent ==
    /\ drain' = [listed   |-> TRUE,
                 returned |-> get_unaccessed_content(cache),
                 pending  |-> get_unaccessed_content(cache)]
    /\ call' = Called("get_unaccessed_content")
    /\ UNCHANGED <<factVars, cache, cacheFile, original, parsed, now, crawls>>

\* A new FactRAGFileCache on the same folder (process restart): the cache
\* and the vector database are loaded from their files.
Reload ==
    /\ cache' = load_cache(cacheFile)
    /\ db' = pickle_load(dbFile)
    /\ db_hash' = get_file_sha256(dbFile)
    /\ foreign' = FALSE
    /\ call' = Called("reload")
    /\ UNCHANGED <<cacheFile, original, parsed, now, crawls, drain, dbFile, issued>>

NextCache ==
    \/ Tick
    \/ \E uri \in AllUris : Get(uri)
    \/ \E content \in Contents, given \in URIS \cup {EmptyText} :
           AddContent(content, given)
    \/ \E stored \in Contents, given \in URIS \cup {EmptyText} :
           AddContentFromFile(stored, given)
    \/ \E uri \in URIS, content \in Contents, check_exists \in BOOLEAN :
           ForceContent(uri, content, check_exists)
    \/ \E uri \in AllUris : LogAccess(uri)
    \/ GetUnaccessedContent
    \/ Reload

SpecCache == Init /\ [][NextCache]_vars


\* ------------------------------------------------------------------------
\* Fact store: operations
\* ------------------------------------------------------------------------

\* add_facts(facts, sources); api_ok is whether the embedding service
\* answers.  FactRAGFileCache builds its VectorDBDict with
\* error_out_on_conflict = False.  The call record keeps whether another
\* process wrote the file since this instance loaded or saved it.
AddFacts(facts, sources, api_ok) ==
    LET arg == [nfacts |-> Len(facts), nsources |-> Len(sources),
                after_reload |-> call.op = "reload",
                changed |-> foreign]
    IN
    /\ count(db) + Len(facts) <= MaxFacts
    /\ IF Len(sources) < Len(facts)
       THEN \* sources[i]: IndexError
            /\ call' = RaisedWith("add_facts", arg)
            /\ UNCHANGED <<cacheVars, factVars, now>>
       ELSE LET metadatas == [i \in 1..Len(facts) |->
                                 [added_on_timestamp |-> now,
                                  datetime |-> DateTime(now),
                                  source |-> sources[i]]]
                added == add_texts(db, facts, metadatas, api_ok)
                saved == save(added.db, dbFile, db_hash, FALSE)
            IN IF added.raised
               THEN /\ call' = RaisedWith("add_facts", arg)
                    /\ UNCHANGED <<cacheVars, factVars, now>>
               ELSE /\ db' = added.db
                    /\ dbFile' = saved.file
                    /\ db_hash' = saved.db_hash
                    /\ foreign' = FALSE
                    /\ issued' = issued \cup
                           { [id |-> added.ids[i], text |-> facts[i],
                              source |-> sources[i]] : i \in 1..Len(facts) }
                    /\ call' = ReturnedWith("add_facts", arg, TRUE)
                    /\ UNCHANGED <<cacheVars, now>>

\* query_to_fact_list(query, n_results, since_date); order is the order in
\* which the index returns the stored vectors for the query.
QueryToFactList(text, order, n_results, since_date) ==
    \E zero_k_raises \in zero_k_outcomes(db, n_results, since_date) :
        LET arg == [query |-> text, n_results |-> n_results,
                    since_date |-> since_date]
            got == query_to_fact_list(db, order, n_results, since_date,
                                      zero_k_raises)
        IN
        /\ call' = IF got.raised
                   THEN RaisedWith("query_to_fact_list", arg)
                   ELSE ReturnedWith("query_to_fact_list", arg, got.facts)
        /\ UNCHANGED <<cacheVars, factVars, now>>

\* VectorDBDict.save() of an instance built with the given
\* error_out_on_conflict; the call record keeps whether another process
\* wrote the file since this instance loaded or saved it.
Save(error_out_on_conflict) ==
    LET saved == save(db, dbFile, db_hash, error_out_on_conflict)
        arg == [error_out_on_conflict |-> error_out_on_conflict,
                changed |-> foreign]
    IN
    /\ dbFile' = saved.file
    /\ db_hash' = saved.db_hash
    /\ foreign' = (saved.raised /\ foreign)
    /\ call' = IF saved.raised
               THEN RaisedWith("save", arg)
               ELSE ReturnedWith("save", arg, [warned |-> saved.warned])
    /\ UNCHANGED <<cacheVars, db, issued, now>>

\* Another process that holds the same file loads it, adds a fact and
\* saves.
OtherWriterSaves ==
    LET theirs == add_vectors(pickle_load(dbFile), <<embedding_of(<<"o">>)>>,
                              << <<"o">> >>,
                              <<[added_on_timestamp |-> now,
                                 datetime |-> DateTime(now),
                                 source |-> <<"s", "o">>]>>)
    IN
    /\ Len(dbFile.original_texts) < MaxFacts
    /\ dbFile' = pickle_dump(theirs.db)
    /\ foreign' = TRUE
    /\ call' = Called("other_writer")
    /\ UNCHANGED <<cacheVars, db, db_hash, issued, now>>

NextFacts ==
    \/ Tick
    \/ \E facts \in FactLists, sources \in SourceLists, api_ok \in BOOLEAN :
           AddFacts(facts, sources, api_ok)
    \/ Reload

SpecFacts == Init /\ [][NextFacts]_vars

\* More texts than one embedding batch holds.
ManyTexts == [i \in 1..(MAX_BATCH_SIZE + 1) |-> IF i = 1 THEN <<"y">> ELSE <<"x">>]

\* "if metadata is None: metadata = [{} for i in range(0, len(texts))]"
metadata_or_default(metadata, texts) ==
    IF metadata.is_none THEN [i \in 1..Len(texts) |-> << >>] ELSE metadata.list

\* The lists of the store are filled up to MaxFacts entries, and past that
\* by one call with more texts than a batch holds.
FitsStore(vectors, texts, metadata) ==
    /\ Len(db.embeddings) <= MaxFacts
    /\ Len(db.original_texts) <= MaxFacts
    /\ Len(db.metadata) <= MaxFacts
    /\ Len(texts) <= MAX_BATCH_SIZE
           => /\ Len(db.embeddings) + Len(vectors) <= MaxFacts
              /\ Len(db.original_texts) + Len(texts) <= MaxFacts
              /\ Len(db.metadata) + Len(metadata) <= MaxFacts

\* VectorDBDict.add_vectors(vectors, texts, metadata)
AddVectors(vectors, texts, metadata) ==
    LET added == add_vectors(db, vectors, texts, metadata_or_default(metadata, texts))
        arg == [nvectors |-> Len(vectors), ntexts |-> Len(texts),
                nmetadata |-> IF metadata.is_none THEN -1 ELSE Len(metadata.list)]
    IN
    /\ FitsStore(vectors, texts, metadata_or_default(metadata, texts))
    /\ db' = added.db
    /\ call' = IF added.raised
               THEN RaisedWith("add_vectors", arg)
               ELSE ReturnedWith("add_vectors", arg, added.ids)
    /\ UNCHANGED <<cacheVars, dbFile, db_hash, issued, foreign, now>>

\* VectorDBDict.add_texts(texts, metadata)
AddTexts(texts, metadata, api_ok) ==
    LET added == IF ~api_ok
                 THEN [raised |-> TRUE, db |-> db, ids |-> << >>]
                 ELSE add_vectors(db, embed_batches(texts, 0), texts,
                                  metadata_or_default(metadata, texts))
        arg == [ntexts |-> Len(texts),
                nmetadata |-> IF metadata.is_none THEN -1 ELSE Len(metadata.list)]
    IN
    /\ FitsStore(texts, texts, metadata_or_default(metadata, texts))
    /\ db' = added.db
    /\ call' = IF added.raised
               THEN RaisedWith("add_texts", arg)
               ELSE ReturnedWith("add_texts", arg, added.ids)
    /\ UNCHANGED <<cacheVars, dbFile, db_hash, issued, foreign, now>>

\* The three calls that append to the store.  They read the clock only to
\* stamp the facts, so it stands still here.
NextAppend ==
    \/ \E vectors \in VectorLists, texts \in FactLists,
          metadata \in MetadataArgs :
           AddVectors(vectors, texts, metadata)
    \/ \E texts \in FactLists \cup {ManyTexts},
          metadata \in MetadataArgs, api_ok \in BOOLEAN :
           AddTexts(texts, metadata, api_ok)
    \/ \E facts \in FactLists, sources \in SourceLists :
           AddFacts(facts, sources, TRUE)

SpecAppend == Init /\ [][NextAppend]_vars

\* One instance of the store and another process writing the same file.
NextSave ==
    \/ Tick
    \/ \E facts \in FactLists, sources \in SourceLists :
           /\ Len(sources) = Len(facts)
           /\ AddFacts(facts, sources, TRUE)
    \/ \E error_out_on_conflict \in BOOLEAN : Save(error_out_on_conflict)
    \/ OtherWriterSaves
    \/ Reload

SpecSave == Init /\ [][NextSave]_vars

\* The mutating calls of the content cache and of the fact store on one
\* folder, and restarts.
NextPersist ==
    \/ Tick
    \/ \E uri \in URIS : Get(uri)
    \/ \E content \in Contents : AddContent(content, EmptyText)
    \/ \E uri \in URIS, content \in Contents :
           ForceContent(uri, content, TRUE)
    \/ \E uri \in AllUris : LogAccess(uri)
    \/ \E api_ok \in BOOLEAN :
           AddFacts(<< <<"x">> >>, << <<"s", "1">> >>, api_ok)
    \/ Reload

SpecPersist == Init /\ [][NextPersist]_vars

\* Queries on a store that is being filled.
NextQuery ==
    \/ Tick
    \/ \E facts \in FactLists, sources \in SourceLists :
           /\ Len(sources) = Len(facts)
           /\ AddFacts(facts, sources, TRUE)
    \/ \E text \in Queries :
         \E order \in search_orders(db, text) :
           \E n_results \in NResults,
              since_date \in {None} \cup {DateTime(t) : t \in 0..MaxNow} :
               QueryToFactList(text, order, n_results, since_date)

SpecQuery == Init /\ [][NextQuery]_vars

\* shorten_text(text, max_token_length); a call that does not return is
\* recorded with Diverges in the place of its result.
ShortenText(text, max_token_length) ==
    /\ call' = ReturnedWith("shorten_text",
                   [text |-> text, max_token_length |-> max_token_length],
                   shorten_loop(text, max_token_length))
    /\ UNCHANGED <<cacheVars, factVars, now>>

NextShorten ==
    \E text \in LongTexts, max_token_length \in MaxTokenLengths :
        ShortenText(text, max_token_length)

SpecShorten == Init /\ [][NextShorten]_vars

\* Queries without since_date on a store that is being filled.  Such a
\* query reads no date (lines 517-526), so the clock stands still here.
NextNearest ==
    \/ \E facts \in FactLists :
           AddFacts(facts, [i \in 1..Len(facts) |-> <<"s", "1">>], TRUE)
    \/ \E text \in Queries :
         \E order \in search_orders(db, text) :
           \E n_results \in NResults :
               QueryToFactList(text, order, n_results, None)

SpecNearest == Init /\ [][NextNearest]_vars

\* ------------------------------------------------------------------------
\* Citation resolver: operations
\* ------------------------------------------------------------------------

\* clean_fact_citations(knowledge_db, text_to_clean)
CleanFactCitations(text_to_clean) ==
    LET got == clean_fact_citations(db, text_to_clean)
        arg == [text |-> text_to_clean, start_count |-> 0]
    IN
    /\ call' = IF got.raised
               THEN RaisedWith("clean_fact_citations", arg)
               ELSE ReturnedWith("clean_fact_citations", arg, got.value)
    /\ UNCHANGED <<cacheVars, factVars, now>>

\* FactBot.clean_and_source_to_html(text_to_clean, start_count)
CleanAndSourceToHtml(text_to_clean, start_count) ==
    LET got == clean_and_source_to_html(db, text_to_clean, start_count)
        arg == [text |-> text_to_clean, start_count |-> start_count]
    IN
    /\ call' = IF got.raised
               THEN RaisedWith("clean_and_source_to_html", arg)
               ELSE ReturnedWith("clean_and_source_to_html", arg, got.value)
    /\ UNCHANGED <<cacheVars, factVars, now>>

\* get_fact_source(fact_id)
GetFactSource(fact_id) ==
    LET got == get_fact_source(db, fact_id) IN
    /\ call' = IF got.raised
               THEN RaisedWith("get_fact_source", [fact_id |-> fact_id])
               ELSE ReturnedWith("get_fact_source", [fact_id |-> fact_id], got.value)
    /\ UNCHANGED <<cacheVars, factVars, now>>

\* get_fact_content(fact_id)
GetFactContent(fact_id) ==
    LET got == get_fact_content(db, fact_id) IN
    /\ call' = IF got.raised
               THEN RaisedWith("get_fact_content", [fact_id |-> fact_id])
               ELSE ReturnedWith("get_fact_content", [fact_id |-> fact_id], got.value)
    /\ UNCHANGED <<cacheVars, factVars, now>>

\* Citations resolved against a store that is being filled.
NextCite ==
    \/ Tick
    \/ \E facts \in FactLists, sources \in SourceLists :
           /\ Len(sources) = Len(facts)
           /\ AddFacts(facts, sources, TRUE)
    \/ \E text_to_clean \in CiteTexts : CleanFactCitations(text_to_clean)
    \/ \E text_to_clean \in CiteTexts, start_count \in StartCounts :
           CleanAndSourceToHtml(text_to_clean, start_count)

SpecCite == Init /\ [][NextCite]_vars

\* A chained call: the count the last call returned is the next call's
\* start_count.
ChainedCleanAndSourceToHtml(text_to_clean) ==
    /\ call.op = "clean_and_source_to_html"
    /\ ~call.raised
    /\ call.ret.ref_ctr <= MaxStartCount
    /\ CleanAndSourceToHtml(text_to_clean, call.ret.ref_ctr)

\* Texts sourced to HTML one after the other.  The resolver reads no date,
\* so the clock stands still here.
NextHtml ==
    \/ \E facts \in FactLists :
           AddFacts(facts, [i \in 1..Len(facts) |-> <<"s", "1">>], TRUE)
    \/ \E text_to_clean \in CiteTexts, start_count \in StartCounts :
           CleanAndSourceToHtml(text_to_clean, start_count)
    \/ \E text_to_clean \in CiteTexts : ChainedCleanAndSourceToHtml(text_to_clean)

SpecHtml == Init /\ [][NextHtml]_vars

\* Point lookups on a store that is being filled.
NextLookup ==
    \/ Tick
    \/ \E facts \in FactLists, sources \in SourceLists :
           /\ Len(sources) = Len(facts)
           /\ AddFacts(facts, sources, TRUE)
    \/ \E fact_id \in FactIds : GetFactSource(fact_id)
    \/ \E fact_id \in FactIds : GetFactContent(fact_id)

SpecLookup == Init /\ [][NextLookup]_vars

\* ------------------------------------------------------------------------
\* Ingestion: operations
\* ------------------------------------------------------------------------

\* The state of one FactRAGFileCache and its folder, as a value.
Here ==
    [cache |-> cache, cacheFile |-> cacheFile, original |-> original,
     parsed |-> parsed, crawls |-> crawls, drain |-> drain,
     db |-> db, dbFile |-> dbFile, db_hash |-> db_hash, issued |-> issued,
     foreign |-> foreign]

\* The state becomes S.
Becomes(S) ==
    /\ cache' = S.cache
    /\ cacheFile' = S.cacheFile
    /\ original' = S.original
    /\ parsed' = S.parsed
    /\ crawls' = S.crawls
    /\ drain' = S.drain
    /\ db' = S.db
    /\ dbFile' = S.dbFile
    /\ db_hash' = S.db_hash
    /\ issued' = S.issued
    /\ foreign' = S.foreign

\* get(uri) on state S at time t; c is what the crawler does when asked.
get_on(S, uri, c, t) ==
    LET uri_md5 == uri_to_local(uri) IN
    IF in_cache(S.cache, uri)
    THEN IF uri_md5 \in DOMAIN S.parsed
         THEN [raised |-> FALSE, ret |-> file_read(S.parsed[uri_md5]), S |-> S]
         ELSE [raised |-> TRUE, ret |-> EmptyText, S |-> S]
    ELSE LET content == IF c.raises THEN EmptyText ELSE c.content
             text    == IF c.raises THEN EmptyText ELSE c.text
             cached  == update_cache(S.cache, uri, DateTime(t), DateTime(t))
         IN [raised |-> FALSE, ret |-> text,
             S |-> [S EXCEPT !.crawls = [@ EXCEPT ![uri] = @ + 1],
                             !.original = Put(@, uri_md5, file_write(content)),
                             !.parsed = Put(@, uri_md5, file_write(text)),
                             !.cache = cached,
                             !.cacheFile = save_state(cached),
                             !.drain = NoDrain]]

\* add_facts(facts, sources) on state S at time t.
add_facts_on(S, facts, sources, api_ok, t) ==
    IF Len(sources) < Len(facts)
    THEN [raised |-> TRUE, ret |-> FALSE, S |-> S]
    ELSE LET metadatas == [i \in 1..Len(facts) |->
                              [added_on_timestamp |-> t,
                               datetime |-> DateTime(t),
                               source |-> sources[i]]]
             added == add_texts(S.db, facts, metadatas, api_ok)
             saved == save(added.db, S.dbFile, S.db_hash, FALSE)
         IN IF added.raised
            THEN [raised |-> TRUE, ret |-> FALSE, S |-> S]
            ELSE [raised |-> FALSE, ret |-> TRUE,
                  S |-> [S EXCEPT
                            !.db = added.db,
                            !.dbFile = saved.file,
                            !.db_hash = saved.db_hash,
                            !.foreign = FALSE,
                            !.issued = @ \cup
                                { [id |-> added.ids[i], text |-> facts[i],
                                   source |-> sources[i]] : i \in 1..Len(facts) }]]

\* What happens while one URL is processed: what the crawler does, what
\* self.chunker.chunk does (it asks a language model: it raises or returns
\* a list of facts), and whether the embedding service answers.
UrlOutcomes ==
    { [crawl |-> c, chunk_raises |-> o[1], facts |-> o[2], api_ok |-> o[3]] :
          c \in { x \in CrawlOutcomes : ~x.raises },
          o \in { <<FALSE, << <<"x">> >>, TRUE>>,
                  <<FALSE, << >>, TRUE>>,
                  <<TRUE, << >>, TRUE>>,
                  <<FALSE, << <<"x">> >>, FALSE>> } }
    \cup { [crawl |-> c, chunk_raises |-> FALSE, facts |-> << >>, api_ok |-> TRUE] :
              c \in { x \in CrawlOutcomes : x.raises } }

\* Mutant of facts_from_url: True is returned also when no fact was found.
facts_from_url_returns_true(S, url, o, t) ==
    CHOOSE r_content \in {
        IF content.raised \/ o.chunk_raises
        THEN [raised |-> TRUE, ret |-> FALSE, S |-> content.S]
        ELSE IF Len(o.facts) > 0
             THEN add_facts_on(content.S, o.facts,
                               [i \in 1..Len(o.facts) |-> url], o.api_ok, t)
             ELSE [raised |-> FALSE, ret |-> TRUE, S |-> content.S]
    : content \in {get_on(S, url, o.crawl, t)} } : TRUE

\* facts_from_url(url, topic) on state S at time t.
facts_from_url(S, url, o, t) ==
    CHOOSE r_content \in {
        IF content.raised
        THEN [raised |-> TRUE, ret |-> FALSE, S |-> content.S]
        ELSE IF o.chunk_raises
        THEN [raised |-> TRUE, ret |-> FALSE, S |-> content.S]
        ELSE LET facts == o.facts
                 sources == [i \in 1..Len(facts) |-> url]
             IN IF Len(facts) > 0
                THEN add_facts_on(content.S, facts, sources, o.api_ok, t)
                ELSE [raised |-> FALSE, ret |-> FALSE, S |-> content.S]
    : content \in {get_on(S, url, o.crawl, t)} } : TRUE

\* Mutant of adapter_loop: facts_from_url also for the URLs that are cached.
RECURSIVE adapter_loop_retrying(_, _, _, _, _, _)
adapter_loop_retrying(S0, urls, outs, i, t, guarded) ==
    CHOOSE r_S \in {
        IF i > Len(urls)
        THEN [raised |-> FALSE, S |-> S]
        ELSE CHOOSE r_done \in {
                 IF done.raised /\ ~guarded
                 THEN [raised |-> TRUE, S |-> done.S]
                 ELSE adapter_loop_retrying(done.S, urls, outs, i + 1, t, guarded)
             : done \in {facts_from_url(S, urls[i], outs[i], t)} } : TRUE
    : S \in {S0} } : TRUE

\* The loop of an adapter over the URLs it was given: facts_from_url for
\* every URL that is not cached yet.  guarded is whether the call stands in
\* a try block whose handler prints the failure.
RECURSIVE adapter_loop(_, _, _, _, _, _)
adapter_loop(S0, urls, outs, i, t, guarded) ==
    CHOOSE r_S \in {
        IF i > Len(urls)
        THEN [raised |-> FALSE, S |-> S]
        ELSE IF in_cache(S.cache, urls[i])
        THEN adapter_loop(S, urls, outs, i + 1, t, guarded)
        ELSE CHOOSE r_done \in {
                 IF done.raised /\ ~guarded
                 THEN [raised |-> TRUE, S |-> done.S]
                 ELSE adapter_loop(done.S, urls, outs, i + 1, t, guarded)
             : done \in {facts_from_url(S, urls[i], outs[i], t)} } : TRUE
    : S \in {S0} } : TRUE

\* new_get_rss_links: no try block.
new_get_rss_links(S, urls, outs, t) == adapter_loop(S, urls, outs, 1, t, FALSE)

\* new_get_new_bing_news: no try block.
new_get_new_bing_news(S, urls, outs, t) == adapter_loop(S, urls, outs, 1, t, FALSE)

\* new_get_new_info_news: no try block.
new_get_new_info_news(S, urls, outs, t) == adapter_loop(S, urls, outs, 1, t, FALSE)

\* new_get_new_info_google: facts_from_url stands in try/except Exception.
new_get_new_info_google(S, urls, outs, t) == adapter_loop(S, urls, outs, 1, t, TRUE)

\* The facts the outcomes can add fit the store.
Fits(outs) == count(db) + Len(outs) <= MaxFacts

\* FactsFromUrl: one call of facts_from_url(url, topic).
FactsFromUrl(url, o) ==
    LET got == facts_from_url(Here, url, o, now)
        arg == [url |-> url, facts |-> o.facts]
    IN
    /\ Fits(<<o>>)
    /\ Becomes(got.S)
    /\ call' = IF got.raised
               THEN RaisedWith("facts_from_url", arg)
               ELSE ReturnedWith("facts_from_url", arg, got.ret)
    /\ UNCHANGED now

\* One run of an adapter over a batch of URLs.
Adapter(op, got, urls) ==
    /\ Becomes(got.S)
    /\ call' = IF got.raised
               THEN RaisedWith(op, [urls |-> urls])
               ELSE ReturnedWith(op, [urls |-> urls], << >>)
    /\ UNCHANGED now

NewGetRssLinks(urls, outs) ==
    Fits(outs) /\ Adapter("new_get_rss_links",
                          new_get_rss_links(Here, urls, outs, now), urls)

NewGetNewBingNews(urls, outs) ==
    Fits(outs) /\ Adapter("new_get_new_bing_news",
                          new_get_new_bing_news(Here, urls, outs, now), urls)

NewGetNewInfoNews(urls, outs) ==
    Fits(outs) /\ Adapter("new_get_new_info_news",
                          new_get_new_info_news(Here, urls, outs, now), urls)

NewGetNewInfoGoogle(urls, outs) ==
    Fits(outs) /\ Adapter("new_get_new_info_google",
                          new_get_new_info_google(Here, urls, outs, now), urls)

NextIngest ==
    \/ Tick
    \/ \E url \in FeedUrls, o \in UrlOutcomes : FactsFromUrl(url, o)
    \/ \E urls \in UrlBatches, o1, o2 \in UrlOutcomes :
           NewGetRssLinks(urls, <<o1, o2>>)
    \/ \E urls \in UrlBatches, o1, o2 \in UrlOutcomes :
           NewGetNewBingNews(urls, <<o1, o2>>)
    \/ \E urls \in UrlBatches, o1, o2 \in UrlOutcomes :
           NewGetNewInfoNews(urls, <<o1, o2>>)
    \/ \E urls \in UrlBatches, o1, o2 \in UrlOutcomes :
           NewGetNewInfoGoogle(urls, <<o1, o2>>)

SpecIngest == Init /\ [][NextIngest]_vars

\* Ingestion runs one after the other.  Whether a URL is fetched or skipped
\* depends on no date, so the clock stands still here.
NextRetry ==
    \/ \E url \in FeedUrls, o \in UrlOutcomes : FactsFromUrl(url, o)
    \/ \E urls \in UrlBatches, o1, o2 \in UrlOutcomes :
           NewGetRssLinks(urls, <<o1, o2>>)
    \/ \E urls \in UrlBatches, o1, o2 \in UrlOutcomes :
           NewGetNewBingNews(urls, <<o1, o2>>)
    \/ \E urls \in UrlBatches, o1, o2 \in UrlOutcomes :
           NewGetNewInfoNews(urls, <<o1, o2>>)
    \/ \E urls \in UrlBatches, o1, o2 \in UrlOutcomes :
           NewGetNewInfoGoogle(urls, <<o1, o2>>)

SpecRetry == Init /\ [][NextRetry]_vars

\* ------------------------------------------------------------------------
\* Forecasting agents: operations
\* ------------------------------------------------------------------------

\* The agents work on a KnowledgeBaseFileCache (knowledge.py), whose
\* in_cache, update_cache, log_access, get_unaccessed_content, save_state
\* and add_content read as those of FactRAGFileCache; its get differs.

\* What the two scraper.scrape calls of KnowledgeBaseFileCache.get may do.
ScrapeOutcomes ==
    { [raw_raises |-> FALSE, text_raises |-> FALSE, content |-> c.content, text |-> c.text] :
          c \in { x \in CrawlOutcomes : ~x.raises } }
    \cup { [raw_raises |-> TRUE, text_raises |-> FALSE, content |-> EmptyText, text |-> EmptyText],
           [raw_raises |-> FALSE, text_raises |-> TRUE, content |-> <<"<", ">">>, text |-> EmptyText] }

\* KnowledgeBaseFileCache.get(uri) on state S at time t.
kb_get(S, uri, c, t) ==
    LET uri_md5 == uri_to_local(uri) IN
    IF in_cache(S.cache, uri)
    THEN IF uri_md5 \in DOMAIN S.parsed
         THEN [raised |-> FALSE, ret |-> file_read(S.parsed[uri_md5]), S |-> S]
         ELSE [raised |-> TRUE, ret |-> EmptyText, S |-> S]
    ELSE IF c.raw_raises
    THEN [raised |-> TRUE, ret |-> EmptyText, S |-> S]
    ELSE IF c.text_raises
    THEN [raised |-> TRUE, ret |-> EmptyText,
          S |-> [S EXCEPT !.original = Put(@, uri_md5, file_write(c.content))]]
    ELSE LET cached == update_cache(S.cache, uri, DateTime(t), DateTime(t)) IN
         [raised |-> FALSE, ret |-> c.text,
          S |-> [S EXCEPT !.original = Put(@, uri_md5, file_write(c.content)),
                          !.parsed = Put(@, uri_md5, file_write(c.text)),
                          !.cache = cached,
                          !.cacheFile = save_state(cached),
                          !.drain = NoDrain]]

\* knowledge_base.log_access(uri) on state S at time t, uri being cached.
log_access_on(S, uri, t) ==
    LET logged == log_access(S.cache, uri, DateTime(t)) IN
    [S EXCEPT !.cache = logged,
              !.cacheFile = save_state(logged),
              !.drain = [@ EXCEPT !.pending = @ \ {uri}]]

\* The local variables of a run when its loops start.
RunStart(S) ==
    [S |-> S, raised |-> FALSE, ctr |-> 0, added_new_content |-> FALSE,
     accessed_resources |-> << >>, ctr_to_source |-> << >>,
     listed |-> FALSE, unaccessed_uris |-> << >>,
     submitted |-> FALSE, logged |-> << >>, response |-> None]

\* One resource is read into scraped_content: ctr += 1, get, the URI is
\* appended to accessed_resources and ctr_to_source[ctr] = uri.
read_resource(R, uri, c, t) ==
    CHOOSE r_page \in {
        IF page.raised
        THEN [R EXCEPT !.S = page.S, !.raised = TRUE, !.ctr = @ + 1,
                       !.added_new_content = TRUE]
        ELSE [R EXCEPT !.S = page.S, !.ctr = @ + 1,
                       !.added_new_content = TRUE,
                       !.accessed_resources = Append(@, uri),
                       !.ctr_to_source = Append(@, uri)]
    : page \in {kb_get(R.S, uri, c, t)} } : TRUE

\* "for result in results": the search results that are not cached.
RECURSIVE results_loop(_, _, _, _, _)
results_loop(R0, results, scrapes, i, t) ==
    CHOOSE r_R \in {
        IF R.raised \/ i > Len(results)
        THEN R
        ELSE IF ~in_cache(R.S.cache, results[i])
        THEN results_loop(read_resource(R, results[i], scrapes[i], t),
                          results, scrapes, i + 1, t)
        ELSE results_loop(R, results, scrapes, i + 1, t)
    : R \in {R0} } : TRUE

\* Mutant of unaccessed_loop: access is logged as each resource is read.
RECURSIVE unaccessed_loop_logging(_, _, _, _)
unaccessed_loop_logging(R0, unaccessed_uris, i, t) ==
    CHOOSE r_R \in {
        IF R.raised \/ i > Len(unaccessed_uris)
        THEN R
        ELSE unaccessed_loop_logging(
                 [R EXCEPT !.S = log_access_on(kb_get(R.S, unaccessed_uris[i],
                                                      CHOOSE c \in ScrapeOutcomes : TRUE, t).S,
                                               unaccessed_uris[i], t),
                           !.ctr = @ + 1, !.added_new_content = TRUE,
                           !.accessed_resources = Append(@, unaccessed_uris[i]),
                           !.ctr_to_source = Append(@, unaccessed_uris[i])],
                 unaccessed_uris, i + 1, t)
    : R \in {R0} } : TRUE

\* "for ua in unaccessed_uris".  Every ua is cached, so get scrapes nothing.
RECURSIVE unaccessed_loop(_, _, _, _)
unaccessed_loop(R0, unaccessed_uris, i, t) ==
    CHOOSE r_R \in {
        IF R.raised \/ i > Len(unaccessed_uris)
        THEN R
        ELSE unaccessed_loop(
                 read_resource(R, unaccessed_uris[i],
                               CHOOSE c \in ScrapeOutcomes : TRUE, t),
                 unaccessed_uris, i + 1, t)
    : R \in {R0} } : TRUE

\* "for ar in accessed_resources: knowledge_base.log_access(ar)"
RECURSIVE log_loop(_, _, _)
log_loop(R0, i, t) ==
    CHOOSE r_R \in {
        IF i > Len(R.accessed_resources)
        THEN R
        ELSE log_loop([R EXCEPT !.S = log_access_on(@, R.accessed_resources[i], t),
                                !.logged = Append(@, R.accessed_resources[i])],
                      i + 1, t)
    : R \in {R0} } : TRUE

\* The orders a dict of these keys may be iterated in.
orders_of(keys) ==
    { o \in [1..Cardinality(keys) -> keys] :
          \A i, j \in 1..Cardinality(keys) : i # j => o[i] # o[j] }

\* What the steps between the loops and the log_access loop may do: the two
\* chatbot.resend() calls, extract_prediction and client.create_forecast
\* (which raises unless the platform answers 201).
LaterOutcomes == { "ok", "resend_raises", "create_forecast_raises" }

\* One run of an agent on state S: the search results, what the scraper
\* does for each, the iteration order of the cache and what the later steps
\* do are given.
forecast_run(S, results, scrapes, order, later, t) ==
    CHOOSE r_searched \in {
        IF searched.raised
        THEN searched
        ELSE CHOOSE r_read \in {
                 IF read.raised
                 THEN read
                 ELSE IF ~read.added_new_content
                 THEN read
                 ELSE IF later # "ok"
                 THEN [read EXCEPT !.raised = TRUE]
                 ELSE log_loop([read EXCEPT !.submitted = TRUE,
                                            !.response = <<"forecast">>], 1, t)
             : read \in {unaccessed_loop(
                             [searched EXCEPT
                                 !.listed = TRUE,
                                 !.unaccessed_uris = order,
                                 !.S = [@ EXCEPT !.drain =
                                           [listed |-> TRUE,
                                            returned |-> get_unaccessed_content(searched.S.cache),
                                            pending |-> get_unaccessed_content(searched.S.cache)]]],
                             order, 1, t)} } : TRUE
    : searched \in {results_loop(RunStart(S), results, scrapes, 1, t)} } : TRUE

\* The record of a run: what it was given, what it did and what it returned.
RunCall(op, results, R) ==
    [op |-> op, uri |-> EmptyText, raised |-> R.raised,
     arg |-> [results |-> results,
              accessed_resources |-> R.accessed_resources,
              ctr_to_source |-> R.ctr_to_source,
              listed |-> R.listed,
              unaccessed_uris |-> R.unaccessed_uris,
              submitted |-> R.submitted,
              logged |-> R.logged],
     ret |-> IF R.raised THEN EmptyText ELSE R.response]

\* A run whose cache is iterated in some order.
AgentRun(op, results, scrapes, later) ==
    \E order \in orders_of(get_unaccessed_content(
                     results_loop(RunStart(Here), results, scrapes, 1, now).S.cache)) :
        LET R == forecast_run(Here, results, scrapes, order, later, now) IN
        /\ Becomes(R.S)
        /\ call' = RunCall(op, results, R)
        /\ UNCHANGED now

\* CitationScrapeAndPredictAgent(...)
CitationScrapeAndPredictAgent(results, scrapes, later) ==
    AgentRun("CitationScrapeAndPredictAgent", results, scrapes, later)

\* RecursiveForecastingAgent.create_forecast(...)
CreateForecast(results, scrapes, later) ==
    AgentRun("create_forecast", results, scrapes, later)

AgentOps == { "CitationScrapeAndPredictAgent", "create_forecast" }

\* Runs of the agents on a knowledge base that content is added to by
\* hand, in one process or after a restart.  The agents compare no dates,
\* so the clock stands still here.
NextAgent ==
    \/ \E content \in Contents : AddContent(content, EmptyText)
    \/ \E results \in UrlBatches, s1, s2 \in ScrapeOutcomes, later \in LaterOutcomes :
           CitationScrapeAndPredictAgent(results, <<s1, s2>>, later)
    \/ \E results \in UrlBatches, s1, s2 \in ScrapeOutcomes, later \in LaterOutcomes :
           CreateForecast(results, <<s1, s2>>, later)
    \/ Reload

SpecAgent == Init /\ [][NextAgent]_vars

\* ------------------------------------------------------------------------
\* Content cache: properties
\* ------------------------------------------------------------------------

\* C3: calling get(uri) twice never crawls twice: after a get the URI is in
\* the cache, and a second get of the same URI returns exactly the text the
\* first returned, without a crawl.
C3_GetTwiceIdentical ==
    /\ [](call.op = "get" => in_cache(cache, call.uri))
    /\ [][(call.op = "get" /\ call'.op = "get" /\ call'.uri = call.uri)
            => (crawls' = crawls /\ call'.ret = call.ret)]_vars

\* C12: when the crawler raises, get raises to its caller and leaves the
\* URI out of the cache.
C12_CrawlerFailureRaised ==
    (call.op = "get" /\ call.arg.crawler_raised)
    => (call.raised /\ ~in_cache(cache, call.uri))

\* C15: force_content with the presence check, on a URI that is cached,
\* returns False and leaves the entry, both blobs and the cache file as they
\* were.  (A step that leaves the clock alone is a call.)
C15_ForceContentPresentNoOp ==
    [][(/\ call'.op = "force_content"
        /\ now' = now
        /\ call'.arg.check_exists
        /\ in_cache(cache, call'.uri))
       => (/\ ~call'.raised
           /\ call'.ret = FALSE
           /\ cache' = cache
           /\ cacheFile' = cacheFile
           /\ original' = original
           /\ parsed' = parsed)]_vars

\* C15 witness: force_content with the presence check returned False for a
\* URI that get had cached with other content.
C15_Witness ==
    /\ call.op = "force_content"
    /\ call.arg.check_exists
    /\ call.ret = FALSE
    /\ in_cache(cache, call.uri)
    /\ parsed[uri_to_local(call.uri)] \notin Contents

\* C17: the instant in obtained_on of an entry never changes once the entry
\* exists.
C17_ObtainedOnSetOnce ==
    [][\A u \in AllUris :
          (in_cache(cache, u) /\ in_cache(cache', u))
              => cache'[u].obtained_on[2] = cache[u].obtained_on[2]]_vars

\* C7: a URI has a cache entry iff both its original and its parsed blob
\* exist on disk under the URI's hash.
C7_EntryIffBothBlobs ==
    \A u \in AllUris :
        in_cache(cache, u) <=>
            (uri_to_local(u) \in DOMAIN original /\ uri_to_local(u) \in DOMAIN parsed)

\* C8: once accessed is true for a URI, no operation sets it back to false.
C8_AccessedNeverReset ==
    [][\A u \in AllUris :
          (in_cache(cache, u) /\ cache[u].accessed = 1)
              => (in_cache(cache', u) /\ cache'[u].accessed = 1)]_vars

\* C9: a URI that is in the cache stays in the cache through every later
\* operation, a reload from the cache file included.
C9_NoPathBackToAbsent ==
    [][\A u \in AllUris : in_cache(cache, u) => in_cache(cache', u)]_vars

\* C9 witness: a new instance was loaded from a cache file with two entries.
C9_Witness ==
    /\ call.op = "reload"
    /\ Cardinality(DOMAIN cache) = 2

\* C10: when log_access was called for every member of the list
\* get_unaccessed_content() returned and no content was added since, no
\* unaccessed content is left.
C10_AccessQueueDrains ==
    (drain.listed /\ drain.pending = {}) => get_unaccessed_content(cache) = {}

\* C10 witness: a list of two URIs was returned and both were log_access-ed.
C10_Witness ==
    /\ drain.listed
    /\ Cardinality(drain.returned) = 2
    /\ drain.pending = {}


\* ------------------------------------------------------------------------
\* Fact store: properties
\* ------------------------------------------------------------------------

\* C2: every fact add_facts adds gets an ID greater than every ID assigned
\* before, and an assigned ID keeps denoting the text and source it was
\* assigned to, also after the store is reloaded from its file.
C2_IdsMonotonicAndStable ==
    /\ [](\A r \in issued :
            /\ r.id < count(db)
            /\ db.original_texts[r.id + 1] = r.text
            /\ db.metadata[r.id + 1].source = r.source)
    /\ [][\A r \in issued' \ issued : \A o \in issued : r.id > o.id]_vars

\* C2 witness: a new instance loaded a file holding facts and then added a
\* fact.
C2_Witness ==
    /\ call.op = "add_facts"
    /\ ~call.raised
    /\ call.arg.after_reload
    /\ count(db) > call.arg.nfacts
    /\ Cardinality(issued) = count(db)

\* C13: save() fails in strict mode when another process wrote the file
\* since this instance loaded or saved it, and leaves the file as that
\* process wrote it; in non-strict mode it warns; when nobody else wrote the
\* file it neither warns nor fails.
C13_SaveDetectsOtherWriter ==
    /\ [](call.op = "save" =>
            IF call.arg.changed
            THEN IF call.arg.error_out_on_conflict
                 THEN call.raised
                 ELSE ~call.raised /\ call.ret.warned
            ELSE ~call.raised /\ ~call.ret.warned)
    /\ [][(call'.op = "save" /\ call'.arg.changed
                /\ call'.arg.error_out_on_conflict)
            => dbFile' = dbFile]_vars

\* C13 witness: a strict save failed after another process had written the
\* file, which holds that process's fact and not this instance's.
C13_Witness ==
    /\ call.op = "save"
    /\ call.arg.changed
    /\ call.arg.error_out_on_conflict
    /\ call.raised
    /\ dbFile # pickle_dump(db)
    /\ count(db) > 0

\* The facts of a database that the other process added.
others_facts(d) == { i \in 1..count(d) : d.metadata[i].source = <<"s", "o">> }

\* C28: when another process has added facts to the file this instance
\* loaded, an add_facts of this instance overwrites the file with its own
\* database: the facts the other process added are gone from the file, and
\* the IDs they held are held by the facts this instance added.
C28_SecondWriterOverwrites ==
    [][(call'.op = "add_facts" /\ ~call'.raised /\ call'.arg.changed /\ foreign)
       => LET theirs == (count(db) + 1)..count(dbFile) IN
          /\ theirs # {}
          /\ \A i \in theirs : dbFile.metadata[i].source = <<"s", "o">>
          /\ dbFile' = pickle_dump(db')
          /\ Cardinality(others_facts(dbFile')) = Cardinality(others_facts(db))
          /\ count(dbFile') > count(db)
          /\ \A i \in theirs :
                 i <= count(dbFile')
                 => \E f \in issued' \ issued :
                        /\ f.id = i - 1
                        /\ dbFile'.original_texts[i] = f.text
                        /\ dbFile'.metadata[i].source = f.source
                        /\ f.source # <<"s", "o">>]_vars

\* C28 witness: this instance added a fact after another process had, and
\* the file holds this instance's fact and none of the other's.
C28_Witness ==
    /\ call.op = "add_facts"
    /\ ~call.raised
    /\ call.arg.changed
    /\ count(dbFile) > 0
    /\ others_facts(dbFile) = {}

\* C18: what a new instance would load from the folder is what this
\* instance holds: the same cache entries with the same flags, hashes and
\* instants, and the same facts at the same positions.
C18_PersistedEqualsMemory ==
    LET fresh == load_cache(cacheFile) IN
    /\ DOMAIN fresh = DOMAIN cache
    /\ \A u \in DOMAIN cache :
           /\ fresh[u].accessed = cache[u].accessed
           /\ fresh[u].uri_md5 = cache[u].uri_md5
           /\ fresh[u].obtained_on[2] = cache[u].obtained_on[2]
           /\ fresh[u].last_accessed[2] = cache[u].last_accessed[2]
    /\ pickle_load(dbFile) = db
    /\ get_file_sha256(dbFile) = db_hash

\* C18 witness: the folder holds two facts and two entries, one accessed
\* and one not, after a log_access.
C18_Witness ==
    /\ call.op = "log_access"
    /\ ~call.raised
    /\ count(db) = 2
    /\ \E u, v \in DOMAIN cache : cache[u].accessed = 1 /\ cache[v].accessed = 0

\* The IDs a query_to_fact_list call returned.
returned_ids == { call.ret[k].key[2] : k \in 1..Len(call.ret) }

\* C4: with since_date = T, query_to_fact_list returns only facts added
\* strictly after T, and of those the n_results nearest to the query.
C4_SinceDateStrictlyAfter ==
    (call.op = "query_to_fact_list" /\ ~call.raised /\ call.arg.since_date # None)
    => LET T == call.arg.since_date[2]
           n == IF call.arg.n_results = -1 THEN count(db) ELSE call.arg.n_results
           passing == { i \in 0..(count(db) - 1) :
                          db.metadata[i + 1].added_on_timestamp > T }
           dist(i) == l2_distance(embedding_of(call.arg.query), db.embeddings[i + 1])
       IN /\ returned_ids \subseteq passing
          /\ Cardinality(returned_ids) =
                 (IF n < Cardinality(passing) THEN n ELSE Cardinality(passing))
          /\ \A r \in returned_ids : \A p \in passing \ returned_ids :
                 dist(r) <= dist(p)

\* What C20 says of a query_to_fact_list call without since_date that asked
\* for k facts of a store holding at least k: it returned k facts, each
\* stored fact at most once and with its own content, nearest first, and
\* no fact left out is nearer than one returned.
k_nearest_returned ==
    LET k == IF call.arg.n_results = -1 THEN count(db) ELSE call.arg.n_results
        id(j) == call.ret[j].key[2]
        dist(i) == l2_distance(embedding_of(call.arg.query), db.embeddings[i + 1])
    IN /\ ~call.raised
       /\ Len(call.ret) = k
       /\ \A j \in 1..k :
              /\ id(j) \in 0..(count(db) - 1)
              /\ call.ret[j].value.content = db.original_texts[id(j) + 1]
              /\ call.ret[j].value.source = db.metadata[id(j) + 1].source
       /\ \A i, j \in 1..k : i < j => (id(i) # id(j) /\ dist(id(i)) <= dist(id(j)))
       /\ \A j \in 1..k : \A p \in 0..(count(db) - 1) :
              (\A i \in 1..k : id(i) # p) => dist(id(j)) <= dist(p)

k_asked ==
    IF call.arg.n_results = -1 THEN count(db) ELSE call.arg.n_results

C23_ShortenTextTerminatesWithinBudget ==
    call.op = "shorten_text"
    => /\ call.ret # Diverges
       /\ token_count(call.ret) <= call.arg.max_token_length
       /\ token_count(call.arg.text) <= call.arg.max_token_length
              => call.ret = call.arg.text

\* C25: every fact ID query_to_fact_list returns is the ID of a stored fact
\* (an index from 0 to count - 1) and no fact is returned twice, whatever
\* n_results and since_date are.
C25_ReturnedIdsExistOnce ==
    (call.op = "query_to_fact_list" /\ ~call.raised)
    => /\ \A k \in 1..Len(call.ret) : call.ret[k].key[2] \in 0..(count(db) - 1)
       /\ \A j, k \in 1..Len(call.ret) :
              j # k => call.ret[j].key[2] # call.ret[k].key[2]

\* C29: after every add_vectors, add_texts or add_facts call that returned,
\* the index, original_texts and metadata hold the same number of entries
\* and the embedding at each index is that of the text at that index.
C29_ParallelListsAligned ==
    (call.op \in {"add_vectors", "add_texts", "add_facts"} /\ ~call.raised)
    => /\ Len(db.embeddings) = Len(db.original_texts)
       /\ Len(db.metadata) = Len(db.original_texts)
       /\ \A i \in 1..Len(db.original_texts) :
              i <= Len(db.embeddings)
              => db.embeddings[i] = embedding_of(db.original_texts[i])

\* C5: add_facts with lists of different lengths fails and adds nothing.
C5_MismatchedLengthsFail ==
    [][(call'.op = "add_facts" /\ call'.arg.nfacts # call'.arg.nsources)
          => (call'.raised /\ db' = db /\ dbFile' = dbFile)]_vars


\* ------------------------------------------------------------------------
\* Citation resolver: properties
\* ------------------------------------------------------------------------

\* The references of one match, in order: the fact index each names, or -1
\* for one that names none.
refs_of_match(text, ignorecase, mt) ==
    LET refs == split(SubSeq(text, mt.start + 1, mt.end - 1))
        index(ref) == LET f_str == lower(strip(ref)) IN
                      IF f_str # << >> /\ f_str[1] = "f" /\ ~py_int(Tail(f_str)).raised
                      THEN py_int(Tail(f_str)).value ELSE -1
    IN [k \in 1..Len(refs) |-> index(refs[k])]

\* The fact indexes a text cites, in order of appearance.
RECURSIVE cited_from(_, _, _, _)
cited_from(text, ignorecase, matches, m) ==
    IF m > Len(matches) THEN << >>
    ELSE refs_of_match(text, ignorecase, matches[m])
             \o cited_from(text, ignorecase, matches, m + 1)

cited(text, ignorecase) ==
    cited_from(text, ignorecase, finditer(text, 1, ignorecase), 1)

\* The cited indexes without repetitions, in order of first appearance.
RECURSIVE first_appearances(_, _)
first_appearances(ids, seen) ==
    IF ids = << >> THEN seen
    ELSE first_appearances(Tail(ids),
             IF \E k \in 1..Len(seen) : seen[k] = Head(ids)
             THEN seen ELSE Append(seen, Head(ids)))

\* The display number of a fact: its place among the first appearances.
display_number(order, id) == CHOOSE k \in 1..Len(order) : order[k] = id

\* The text with every bracket rewritten to the display numbers of its facts.
RECURSIVE renumbered(_, _, _, _, _)
renumbered(text, matches, m, last_index, order) ==
    IF m > Len(matches)
    THEN SubSeq(text, last_index, Len(text))
    ELSE LET ids == refs_of_match(text, FALSE, matches[m]) IN
         SubSeq(text, last_index, matches[m].start - 1)
             \o <<"[">>
             \o join_comma_space([k \in 1..Len(ids) |->
                                     py_str(display_number(order, ids[k]))])
             \o <<"]">>
             \o renumbered(text, matches, m + 1, matches[m].end + 1, order)

\* The end notes: one line per cited fact, in order of first appearance.
RECURSIVE end_notes(_, _, _)
end_notes(d, order, k) ==
    IF k > Len(order) THEN << >>
    ELSE source_line(k, d.metadata[order[k] + 1].source) \o end_notes(d, order, k + 1)

\* C1: a fact cited more than once gets the same display number at every
\* occurrence and one end note: plain mode returns the text renumbered by
\* first appearance followed by one source line per cited fact, and HTML
\* mode advances the source count by the number of facts cited.
C1_RepeatedFactSameNumber ==
    /\ (call.op = "clean_fact_citations" /\ ~call.raised
            /\ cited(call.arg.text, FALSE) # << >>)
       => LET order == first_appearances(cited(call.arg.text, FALSE), << >>) IN
          call.ret = renumbered(call.arg.text, finditer(call.arg.text, 1, FALSE),
                                1, 1, order)
                        \o <<"LF", "LF", "Sources:", "LF">>
                        \o end_notes(db, order, 1)
    /\ (call.op = "clean_and_source_to_html" /\ ~call.raised)
       => call.ret.ref_ctr = call.arg.start_count
              + Len(first_appearances(cited(call.arg.text, TRUE), << >>))

\* An ID string denotes the stored fact N when it, or its lower-cased
\* variant, is "f" followed by the decimal N (the "f" may be missing), and
\* fact N is in the store; otherwise it denotes nothing (-1).
denoted(d, fact_id) ==
    LET f_str == lower(fact_id)
        digits == IF f_str # << >> /\ Head(f_str) = "f" THEN Tail(f_str) ELSE f_str
    IN IF digits # << >> /\ (\A i \in 1..Len(digits) : digits[i] \in Digits)
          /\ digits_value(digits, 0) < count(d)
       THEN digits_value(digits, 0)
       ELSE -1

\* The numbers written between an opening and a closing piece of markup,
\* from left to right.
RECURSIVE first_at(_, _, _)
first_at(text, i, token) ==
    IF i > Len(text) \/ text[i] = token THEN i ELSE first_at(text, i + 1, token)

RECURSIVE numbers_between(_, _, _, _)
numbers_between(text, i, opener, closer) ==
    LET start == first_at(text, i, opener)
        end == first_at(text, start + 1, closer)
    IN IF start > Len(text) THEN << >>
       ELSE <<digits_value(SubSeq(text, start + 1, end - 1), 0)>>
                \o numbers_between(text, end + 1, opener, closer)

\* The display numbers of the end-note spans and of the anchors.
span_numbers(sources_text) ==
    numbers_between(sources_text, 1, "<span class='fact_span'><b>", ":</b> ")

anchor_numbers(new_text) == numbers_between(new_text, 1, "'>", "</a>")

\* C24: clean_and_source_to_html numbers the references start_count + 1,
\* start_count + 2, ... from left to right, one end-note per number, and
\* returns the last number assigned; a call chained on the returned count
\* shares no display number with the call before it.
C24_ChainedNumbersNeverCollide ==
    /\ []((call.op = "clean_and_source_to_html" /\ ~call.raised)
             => LET spans == span_numbers(call.ret.sources_text) IN
                /\ \A k \in 1..Len(spans) : spans[k] = call.arg.start_count + k
                /\ anchor_numbers(call.ret.new_text) = spans
                /\ call.ret.ref_ctr = call.arg.start_count + Len(spans))
    /\ [][(/\ call.op = "clean_and_source_to_html" /\ ~call.raised
            /\ call'.op = "clean_and_source_to_html" /\ ~call'.raised
            /\ call'.arg.start_count = call.ret.ref_ctr)
           => \A i \in 1..Len(span_numbers(call.ret.sources_text)) :
                  \A j \in 1..Len(span_numbers(call'.ret.sources_text)) :
                      span_numbers(call.ret.sources_text)[i]
                          # span_numbers(call'.ret.sources_text)[j]]_vars

\* C24 witness: a chained call numbered its references from the count the
\* call before it returned.
C24_Witness ==
    /\ call.op = "clean_and_source_to_html"
    /\ ~call.raised
    /\ call.arg.start_count = 2
    /\ call.ret.ref_ctr = 5
    /\ span_numbers(call.ret.sources_text) = <<3, 4, 5>>

\* C14: get_fact_source and get_fact_content fail for every ID string that
\* denotes no stored fact, and what they return is the source or content of
\* the fact the ID denotes.
C14_LookupOfUnknownIdFails ==
    /\ call.op = "get_fact_source" =>
           IF denoted(db, call.arg.fact_id) = -1
           THEN call.raised
           ELSE ~call.raised
                /\ call.ret = db.metadata[denoted(db, call.arg.fact_id) + 1].source
    /\ call.op = "get_fact_content" =>
           IF denoted(db, call.arg.fact_id) = -1
           THEN call.raised
           ELSE ~call.raised
                /\ call.ret = db.original_texts[denoted(db, call.arg.fact_id) + 1]

\* C16: a text in which the pattern matches nowhere comes back from
\* clean_fact_citations unchanged, with no sources section.
C16_NoReferenceUnchanged ==
    (call.op = "clean_fact_citations"
         /\ finditer(call.arg.text, 1, FALSE) = << >>)
    => (~call.raised /\ call.ret = call.arg.text)

\* C16 witness: a text without a reference was resolved against a store
\* that holds facts.
C16_Witness ==
    /\ call.op = "clean_fact_citations"
    /\ call.arg.text = <<"A", ".", "B">>
    /\ ~call.raised
    /\ count(db) > 0

facts_from(all, u) == { f \in all : f.source = u }

\* C27: a URL that facts_from_url failed on stays in the cache and in the
\* cache file, and an adapter run neither fetches a cached URL again nor
\* adds a fact for it.
C27_FailedUrlNeverRetried ==
    /\ []((call.op = "facts_from_url" /\ call.raised)
             => (/\ in_cache(cache, call.arg.url)
                 /\ call.arg.url \in DOMAIN cacheFile))
    /\ [][(call'.op \in {"new_get_rss_links", "new_get_new_bing_news",
                         "new_get_new_info_news", "new_get_new_info_google"})
           => \A u \in DOMAIN cache :
                  /\ in_cache(cache', u)
                  /\ crawls'[u] = crawls[u]
                  /\ facts_from(issued', u) = facts_from(issued, u)]_vars

\* C27 witness: facts_from_url raised on a page that was fetched, and the
\* URL is cached with no fact stored for it.
C27_Witness ==
    /\ call.op = "facts_from_url"
    /\ call.raised
    /\ in_cache(cache, call.arg.url)
    /\ parsed[uri_to_local(call.arg.url)] # EmptyText
    /\ facts_from(issued, call.arg.url) = {}

\* C11: no adapter run is aborted by one URL: the adapter returns and every
\* URL of its batch was processed (get caches every URL it is asked for).
C11_BadUrlNeverAborts ==
    (call.op \in {"new_get_rss_links", "new_get_new_bing_news",
                  "new_get_new_info_news", "new_get_new_info_google"})
    => /\ ~call.raised
       /\ \A k \in 1..Len(call.arg.urls) : in_cache(cache, call.arg.urls[k])

\* ------------------------------------------------------------------------
\* Chunkers
\* ------------------------------------------------------------------------

\* content.split("\n")
RECURSIVE split_newlines(_, _)
split_newlines(s, current) ==
    IF s = << >> THEN <<current>>
    ELSE IF Head(s) = "LF"
         THEN <<current>> \o split_newlines(Tail(s), << >>)
         ELSE split_newlines(Tail(s), Append(current, Head(s)))

\* Mutant of chunk_new_lines: a line must be longer than min_length.
RECURSIVE chunk_new_lines_longer(_, _, _)
chunk_new_lines_longer(min_length, lines, facts) ==
    IF lines = << >> THEN facts
    ELSE LET ls == strip(Head(lines)) IN
         chunk_new_lines_longer(min_length, Tail(lines),
             IF Len(ls) > min_length THEN Append(facts, ls) ELSE facts)

\* ChunkerNewLines.chunk: the loop over the lines, facts being the list
\* built so far.
RECURSIVE chunk_new_lines(_, _, _)
chunk_new_lines(min_length, lines, facts) ==
    IF lines = << >> THEN facts
    ELSE LET ls == strip(Head(lines)) IN
         chunk_new_lines(min_length, Tail(lines),
             IF Len(ls) >= min_length THEN Append(facts, ls) ELSE facts)

\* ChunkerNewLines(min_length).chunk(content)
ChunkNewLines(min_length, content) ==
    /\ call' = ReturnedWith("chunk",
                   [min_length |-> min_length, content |-> content],
                   chunk_new_lines(min_length, split_newlines(content, << >>), << >>))
    /\ UNCHANGED <<cacheVars, factVars, now>>

NextChunk ==
    \E min_length \in MinLengths, content \in ChunkContents :
        ChunkNewLines(min_length, content)

SpecChunk == Init /\ [][NextChunk]_vars

\* The lines of a text: the pieces between its line feeds.
RECURSIVE join_lines(_)
join_lines(lines) ==
    IF Len(lines) = 1 THEN lines[1]
    ELSE lines[1] \o <<"LF">> \o join_lines(Tail(lines))

lines_of(content) ==
    CHOOSE lines \in UNION { [1..n -> { SubSeq(content, i, j) :
                                          i \in 1..(Len(content) + 1),
                                          j \in 0..Len(content) }]
                             : n \in 1..(Len(content) + 1) } :
        /\ join_lines(lines) = content
        /\ \A k \in 1..Len(lines) : \A i \in 1..Len(lines[k]) : lines[k][i] # "LF"

\* A line with the whitespace at both ends removed.
trimmed(line) ==
    LET ends == CHOOSE e \in (1..(Len(line) + 1)) \X (0..Len(line)) :
                    /\ e[2] >= e[1] - 1
                    /\ \A k \in 1..Len(line) :
                           (k < e[1] \/ k > e[2]) => line[k] \in Whitespace
                    /\ e[2] >= e[1] => (line[e[1]] \notin Whitespace
                                          /\ line[e[2]] \notin Whitespace)
    IN SubSeq(line, ends[1], ends[2])

\* C21: ChunkerNewLines.chunk returns, in input order, the trimmed form of
\* exactly the lines whose trimmed length is at least min_length: a line of
\* exactly min_length characters after trimming is kept, one of
\* min_length - 1 is dropped.
C21_KeepsLinesOfMinLength ==
    call.op = "chunk"
    => LET lines == lines_of(call.arg.content)
           kept == SelectSeq([k \in 1..Len(lines) |-> trimmed(lines[k])],
                             LAMBDA t : Len(t) >= call.arg.min_length)
       IN /\ ~call.raised
          /\ call.ret = kept
          /\ \A k \in 1..Len(lines) :
                /\ Len(trimmed(lines[k])) = call.arg.min_length
                       => \E j \in 1..Len(call.ret) : call.ret[j] = trimmed(lines[k])
                /\ Len(trimmed(lines[k])) = call.arg.min_length - 1
                       => Len(call.ret) < Len(lines)

\* C21 witness: of two lines, the one of exactly min_length characters
\* after trimming was kept and the one a character shorter was dropped.
C21_Witness ==
    /\ call.op = "chunk"
    /\ call.arg.min_length = 1
    /\ call.arg.content = <<"LF", " ", "a">>
    /\ call.ret = << <<"a">> >>

\* ------------------------------------------------------------------------
\* Forecasting agents: properties
\* ------------------------------------------------------------------------

\* The resources a run used.
used(c) == { c.arg.accessed_resources[i] : i \in 1..Len(c.arg.accessed_resources) }

\* C22: an agent calls log_access for the resources of a run only after the
\* forecast was submitted; when the run raised, none of the resources it
\* used is marked accessed, and the next attempt (in the same process or
\* after a restart) is handed every one of them by get_unaccessed_content().
C22_AccessLoggedAfterSubmission ==
    /\ []((call.op \in AgentOps /\ call.arg.logged # << >>)
              => (call.arg.submitted /\ ~call.raised))
    /\ []((call.op \in AgentOps /\ call.raised)
              => (/\ call.arg.logged = << >>
                  /\ \A u \in used(call) :
                         in_cache(cache, u) /\ cache[u].accessed = 0))
    /\ [][(call.op \in AgentOps /\ call.raised
              /\ call'.op \in AgentOps /\ call'.arg.listed)
            => \A u \in used(call) :
                   \E i \in 1..Len(call'.arg.unaccessed_uris) :
                       call'.arg.unaccessed_uris[i] = u]_vars
    /\ [][(call.op \in AgentOps /\ call.raised /\ call'.op = "reload")
            => \A u \in used(call) : u \in get_unaccessed_content(cache')]_vars

\* C22 witness: a run read a resource and raised before the forecast was
\* submitted.
C22_Witness ==
    /\ call.op \in AgentOps
    /\ call.raised
    /\ call.arg.listed
    /\ ~call.arg.submitted
    /\ call.arg.accessed_resources # << >>

\* C26: in one run each URI gets at most one numbered SOURCE block: a URI
\* numbered in the search-results loop is not numbered again by the
\* unaccessed-content loop.
C26_OneSourceBlockPerUri ==
    call.op \in AgentOps
    => \A i, j \in 1..Len(call.arg.ctr_to_source) :
           i # j => call.arg.ctr_to_source[i] # call.arg.ctr_to_source[j]

\* ---------------------------------------------------------------------
\* Platform client: research sub-tasks
\* ---------------------------------------------------------------------

\* The most status polls of one run_research_sub_task call that are followed.
MaxPolls == 3

\* The commands of a research plan; "OTHER" stands for every command that
\* run_research_sub_task has no branch for.
Commands == {"NEWS", "SEARCH", "WEBSEARCH", "QUERY", "LIST", "OTHER"}

\* What the platform answers to a request that creates a job: the HTTP
\* status, whether the body has a "job_id", and its value.
JobReplies ==
    [status_code : {200, 500}, has_job_id : BOOLEAN, job_id : {0, 1, 2}]

\* What the platform answers to a status request.
StatusReplies ==
    [status_code : {200, 500}, has_job_status : BOOLEAN,
     job_status : {"running", "failed", "complete"}]

\* run_data_collector_news, run_data_collector_serp and
\* research_task_header_and_block read the reply the same way.
job_of(reply) ==
    IF reply.status_code = 200
    THEN IF reply.has_job_id
         THEN [raised |-> FALSE, job_id |-> reply.job_id]
         ELSE [raised |-> TRUE, job_id |-> -1]
    ELSE [raised |-> TRUE, job_id |-> -1]

\* The branch of run_research_sub_task that creates the job: the endpoint
\* it posts to, and the job_id it leaves.
create_job(command, reply) ==
    IF command = "NEWS"
    THEN [endpoint |-> "api_data_collector_run_news"] @@ job_of(reply)
    ELSE IF command \in {"SEARCH", "WEBSEARCH"}
    THEN [endpoint |-> "api_data_collector_run_serp"] @@ job_of(reply)
    ELSE IF command \in {"QUERY", "LIST"}
    THEN [endpoint |-> "api_data_collector_run_header_and_block"] @@ job_of(reply)
    ELSE [endpoint |-> "", raised |-> FALSE, job_id |-> -1]

\* A status check that asks the platform whatever the job_id is.
get_data_collector_job_status_asking(job_id, reply) ==
    IF reply.status_code = 200
    THEN IF reply.has_job_status
         THEN [raised |-> FALSE, ret |-> reply.job_status, contacted |-> TRUE]
         ELSE [raised |-> TRUE, ret |-> "", contacted |-> TRUE]
    ELSE [raised |-> TRUE, ret |-> "", contacted |-> TRUE]

\* get_data_collector_job_status(job_id): "complete" for a job_id that is
\* no job, else what the platform reports.
get_data_collector_job_status(job_id, reply) ==
    IF job_id <= 0
    THEN [raised |-> FALSE, ret |-> "complete", contacted |-> FALSE]
    ELSE IF reply.status_code = 200
    THEN IF reply.has_job_status
         THEN [raised |-> FALSE, ret |-> reply.job_status, contacted |-> TRUE]
         ELSE [raised |-> TRUE, ret |-> "", contacted |-> TRUE]
    ELSE [raised |-> TRUE, ret |-> "", contacted |-> TRUE]

\* One pass of the loop body of run_research_sub_task in the call T, up to
\* time.sleep(10).
poll_once(T, reply) ==
    LET checked == get_data_collector_job_status(T.job_id, reply) IN
    [T EXCEPT !.polls = IF checked.raised THEN @ ELSE Append(@, checked.ret),
              !.status_requests = IF checked.contacted THEN @ + 1 ELSE @,
              !.pc = IF checked.raised THEN "raised" ELSE "sleeping"]

\* The record of a run_research_sub_task call in the state T.
ResearchCall(T) ==
    [op |-> "run_research_sub_task", uri |-> EmptyText, arg |-> T,
     raised |-> T.pc = "raised",
     ret |-> IF T.pc = "returned" THEN -1 ELSE EmptyText]

\* No run_research_sub_task call is under way.
ResearchIdle ==
    call.op = "run_research_sub_task" => call.arg.pc \in {"returned", "raised"}

\* run_research_sub_task(command, args, document_id, short_code,
\* wait_until_completion), from the call to the first time.sleep(10) or to
\* its end.
RunResearchSubTask(command, wait_until_completion, job_reply, status_reply) ==
    LET job == create_job(command, job_reply)
        T == [command |-> command,
              wait_until_completion |-> wait_until_completion,
              endpoint |-> job.endpoint,
              job_id |-> job.job_id,
              polls |-> << >>,
              status_requests |-> 0,
              pc |-> "returned"]
    IN
    /\ ResearchIdle
    /\ call' = ResearchCall(
                   IF job.raised THEN [T EXCEPT !.pc = "raised"]
                   ELSE IF wait_until_completion THEN poll_once(T, status_reply)
                   ELSE T)
    /\ UNCHANGED <<cacheVars, factVars, now>>

\* run_research_sub_task after time.sleep(10): the test of the while loop,
\* then the return or the next pass.
WakeResearchSubTask(status_reply) ==
    /\ call.op = "run_research_sub_task"
    /\ call.arg.pc = "sleeping"
    /\ LET T == call.arg IN
       IF T.polls[Len(T.polls)] = "complete"
       THEN call' = ResearchCall([T EXCEPT !.pc = "returned"])
       ELSE /\ Len(T.polls) < MaxPolls
            /\ call' = ResearchCall(poll_once(T, status_reply))
    /\ UNCHANGED <<cacheVars, factVars, now>>

\* Research sub-tasks against a platform that answers as it likes.
NextResearch ==
    \/ \E command \in Commands, wait_until_completion \in BOOLEAN,
          job_reply \in JobReplies, status_reply \in StatusReplies :
           RunResearchSubTask(command, wait_until_completion, job_reply,
                              status_reply)
    \/ \E status_reply \in StatusReplies : WakeResearchSubTask(status_reply)

SpecResearch == Init /\ [][NextResearch]_vars

\* ---------------------------------------------------------------------
\* Platform client: properties
\* ---------------------------------------------------------------------

\* C30: a run_research_sub_task call with wait_until_completion=True has
\* returned only if its last status check reported "complete" and no
\* earlier one did, and it keeps polling as long as none has; when the
\* command created no job (job_id is still -1), the one status check it
\* makes reports "complete" without a request to the platform.
C30_ReturnsOnlyAfterComplete ==
    (call.op = "run_research_sub_task" /\ call.arg.wait_until_completion)
    => LET T == call.arg IN
       /\ \A i \in 1..(Len(T.polls) - 1) : T.polls[i] # "complete"
       /\ T.pc = "returned"
              => /\ Len(T.polls) >= 1
                 /\ T.polls[Len(T.polls)] = "complete"
       /\ T.pc = "sleeping" => Len(T.polls) >= 1
       /\ (T.job_id = -1 /\ T.pc # "raised")
              => /\ T.polls = <<"complete">>
                 /\ T.status_requests = 0

\* A NEWS job that was still running at the first status check and complete
\* at the second: the call has returned.
C30_Witness ==
    /\ call.op = "run_research_sub_task"
    /\ call.arg.wait_until_completion
    /\ call.arg.command = "NEWS"
    /\ call.arg.job_id > 0
    /\ call.arg.pc = "returned"
    /\ call.arg.polls = <<"running", "complete">>
    /\ call.arg.status_requests = 2

====
